---- MODULE Spec2Model ----
(***************************************************************************)
(* A model of the recursive dice roller: the eager lexer and the           *)
(* shift-reduce expression builder of src/src/parse.rs, and the evaluator  *)
(* of src/src/eval.rs.  Texts are sequences of one-character strings,      *)
(* tokens, expressions and values are records tagged like the Rust enums.  *)
(***************************************************************************)
EXTENDS Integers, Sequences, FiniteSets, TLC

VARIABLES
    input,      \* the text handed to parse(), a sequence of characters
    pos,        \* Token::tokenize: how many characters `chars` has consumed
    tokenized,  \* Token::tokenize: the Vec<Token> built so far
    fed,        \* parse: how many entries of `tokenized` the for loop has taken
    lookahead,  \* ExpBuilder.lookahead
    tokens,     \* ExpBuilder.tokens, the stack
    parsed,     \* what parse() returned (Result<Exp, String>), NoResult before
    rng,        \* the randomness source: its outputs and how many were taken
    evaluated,  \* the Value returned by Exp::evaluate, NoValue before
    output,     \* evaluated.value(), NoOutput before
    pc,         \* where the program stands
    overflow_checks,  \* the build: TRUE when i32 overflow panics (debug),
                      \* FALSE when it wraps (release)
    has_passed_eof,   \* Tokenizer.has_passed_eof
    yielded,    \* what the calls of Tokenizer::next have returned, in order
    arguments   \* the operand lists behind the Rc handles of Op.arguments

vars == <<input, pos, tokenized, fed, lookahead, tokens, parsed, rng,
          evaluated, output, pc, overflow_checks, has_passed_eof, yielded,
          arguments>>

(***************************************************************************)
(* Bounds of the model.                                                    *)
(***************************************************************************)
MaxLen == 3         \* every text of at most MaxLen characters is an input
MaxMixSize == 4     \* operators + parenthesis pairs of a generated expression
MaxPlusSize == 5    \* the same, for expressions that use '+' only
MaxConst == 3       \* constants of evaluated trees range over -1..MaxConst
MaxRng == 2         \* randomness outputs range over 0..MaxRng
MaxDraws == 3       \* length of a randomness sequence
MaxIdle == 2        \* requests made of a token stream that has ended

(***************************************************************************)
(* Characters.                                                             *)
(***************************************************************************)
Digits == <<"0", "1", "2", "3", "4", "5", "6", "7", "8", "9">>

IsDigit(c) == \E i \in 1..Len(Digits) : Digits[i] = c

\* char::to_digit(10)
ToDigit(c) == (CHOOSE i \in 1..Len(Digits) : Digits[i] = c) - 1

IsWhitespace(c) == c = " "

Max(a, b) == IF a >= b THEN a ELSE b
Min(a, b) == IF a <= b THEN a ELSE b

(***************************************************************************)
(* The arithmetic of i32.  A sum, difference or product that leaves the    *)
(* range panics in a build that checks overflow (the debug profile) and    *)
(* wraps modulo 2^32 in one that does not (the release profile).  The      *)
(* wrapped results are computed without an intermediate number beyond the  *)
(* range.                                                                  *)
(***************************************************************************)
I32Max == 2147483647
I32Min == (0 - I32Max) - 1

AddOverflows(a, b) ==
    (b > 0 /\ a > I32Max - b) \/ (b < 0 /\ a < I32Min - b)

WrappingAdd(a, b) ==
    IF b > 0 /\ a > I32Max - b THEN (((a - I32Max) - 1) + b) + I32Min
    ELSE IF b < 0 /\ a < I32Min - b THEN (((a - I32Min) + b) + I32Max) + 1
    ELSE a + b

SubOverflows(a, b) ==
    (b < 0 /\ a > I32Max + b) \/ (b > 0 /\ a < I32Min + b)

WrappingSub(a, b) ==
    IF b < 0 /\ a > I32Max + b THEN (((a - I32Max) - 1) - b) + I32Min
    ELSE IF b > 0 /\ a < I32Min + b THEN (((a - I32Min) - b) + I32Max) + 1
    ELSE a - b

MulOverflows(a, b) ==
    IF a = 0 \/ b = 0 THEN FALSE
    ELSE IF a > 0 /\ b > 0 THEN a > I32Max \div b
    ELSE IF a > 0 THEN b < ((I32Min + a) - 1) \div a
    ELSE IF b > 0 THEN a < ((I32Min + b) - 1) \div b
    ELSE a = I32Min \/ b = I32Min \/ (0 - a) > I32Max \div (0 - b)

\* the product modulo 2^32, from the 16-bit halves of a and b: the low half
\* of the result is that of al * bl, the high half the sum of the carry of
\* al * bl and of the two cross products
WrappingMul(a, b) ==
    LET ah == a \div 65536
        al == a % 65536
        bh == b \div 65536
        bl == b % 65536
        x == al * (bl \div 256)
        y == al * (bl % 256)
        lo == (((x % 256) * 256) + y) % 65536
        carry == (x + (y \div 256)) \div 256
        cross == ((ah * bl) % 65536) + ((al * bh) % 65536)
        hi == ((carry % 65536) + cross) % 65536
    IN  lo + 65536 * (IF hi >= 32768 THEN hi - 65536 ELSE hi)

\* an i32 result: the wrapped number, and whether a step left the range
Checked(n, overflowed) == [n |-> n, overflowed |-> overflowed]

\* 10i32.pow(i)
RECURSIVE Pow10(_)
Pow10(i) ==
    IF i = 0 THEN Checked(1, FALSE)
    ELSE LET p == Pow10(i - 1)
         IN  Checked(WrappingMul(10, p.n),
                     p.overflowed \/ MulOverflows(10, p.n))

(***************************************************************************)
(* Tokens of parse.rs.                                                     *)
(***************************************************************************)
Number(n) == [tag |-> "Number", n |-> n]
Plus == [tag |-> "Plus"]
Minus == [tag |-> "Minus"]
Times == [tag |-> "Times"]
OpenParen == [tag |-> "OpenParen"]
CloseParen == [tag |-> "CloseParen"]
Expression(e) == [tag |-> "Expression", exp |-> e]
EndOfStream == [tag |-> "EndOfStream"]
NoToken == [tag |-> "None"]

(***************************************************************************)
(* Expressions (eval.rs).  parse.rs writes the operator nodes as Add(list),*)
(* Sub(list) and Mul(list); they are the Op nodes of eval.rs.  An operand  *)
(* list is held by value: the builder drains every token that referred to  *)
(* a list in the step that extends it, so no second handle survives.       *)
(***************************************************************************)
Const(n) == [tag |-> "Const", n |-> n]
OpExp(op, args) == [tag |-> "Op", op |-> op, args |-> args]
Add(args) == OpExp("Add", args)
Sub(args) == OpExp("Sub", args)
Mul(args) == OpExp("Mul", args)
KeepAll == [rule |-> "All"]
KeepHighest(e) == [rule |-> "Highest", count |-> e]
KeepLowest(e) == [rule |-> "Lowest", count |-> e]
Roll(dice, sides, keep) ==
    [tag |-> "Roll", dice |-> dice, sides |-> sides, keep |-> keep]

IsAdd(e) == e.tag = "Op" /\ e.op = "Add"
IsSub(e) == e.tag = "Op" /\ e.op = "Sub"

(***************************************************************************)
(* Results and errors.  Every error of the program is a String; the model  *)
(* keeps the message's kind and, for an unexpected symbol, the character   *)
(* the message quotes.                                                     *)
(***************************************************************************)
UnexpectedSymbol(c) == [kind |-> "UnexpectedSymbol", ch |-> c]
StreamCompleted == [kind |-> "StreamCompleted"]
CouldNotBeParsed == [kind |-> "CouldNotBeParsed"]
FinalItemNotToken == [kind |-> "FinalItemNotToken"]

Ok(e) == [ok |-> TRUE, exp |-> e]
Err(m) == [ok |-> FALSE, err |-> m]
NoResult == [ok |-> FALSE, err |-> [kind |-> "None"]]
NoValue == [tag |-> "None"]
NoOutput == [set |-> FALSE]
Output(n) == [set |-> TRUE, n |-> n]

(***************************************************************************)
(* The lexer of parse.rs.                                                  *)
(***************************************************************************)
\* the end of the run of digits that starts at character p + 1
RECURSIVE DigitRunEnd(_, _)
DigitRunEnd(chars, p) ==
    IF p < Len(chars) /\ IsDigit(chars[p + 1])
    THEN DigitRunEnd(chars, p + 1)
    ELSE p

\* sum() over the reversed digit buffer of digit * 10i32.pow(i), folded from
\* 0 in the order i = 0, 1, ...: the sum of the first n terms
RECURSIVE DigitSum(_, _)
DigitSum(buffer, n) ==
    IF n = 0 THEN Checked(0, FALSE)
    ELSE LET acc == DigitSum(buffer, n - 1)
             digit == ToDigit(buffer[Len(buffer) - (n - 1)])
             power == Pow10(n - 1)
             term == WrappingMul(digit, power.n)
         IN  Checked(WrappingAdd(acc.n, term),
                     \/ acc.overflowed
                     \/ power.overflowed
                     \/ MulOverflows(digit, power.n)
                     \/ AddOverflows(acc.n, term))

\* a mutant of TokenParseNumber: the digit buffer is not reversed
TokenParseNumberForward(chars, p) ==
    LET end == DigitRunEnd(chars, p)
        digit_buffer == SubSeq(chars, p + 1, end)
        reversed == [i \in 1..Len(digit_buffer) |->
                        digit_buffer[Len(digit_buffer) + 1 - i]]
        sum == DigitSum(reversed, Len(reversed))
    IN  [value |-> sum.n, overflowed |-> sum.overflowed, pos |-> end]

\* Token::parse_number, started with `p` characters consumed: the wrapped
\* number, whether a step left the i32 range, and the characters consumed
TokenParseNumber(chars, p) ==
    LET end == DigitRunEnd(chars, p)
        digit_buffer == SubSeq(chars, p + 1, end)
        sum == DigitSum(digit_buffer, Len(digit_buffer))
    IN  [value |-> sum.n, overflowed |-> sum.overflowed, pos |-> end]

LexOk(t, p) == [ok |-> TRUE, tok |-> t, pos |-> p]
LexErr(m, p) == [ok |-> FALSE, err |-> m, pos |-> p]

\* a mutant of TokenNext: an unrecognised character is skipped like a blank
RECURSIVE TokenNextSkipping(_, _)
TokenNextSkipping(chars, p) ==
    IF p >= Len(chars) THEN LexErr(StreamCompleted, p)
    ELSE LET c == chars[p + 1] IN
         IF c = "(" THEN LexOk(OpenParen, p + 1)
         ELSE IF c = ")" THEN LexOk(CloseParen, p + 1)
         ELSE IF IsDigit(c) THEN
              LET r == TokenParseNumber(chars, p)
              IN  LexOk(Number(r.value), r.pos)
         ELSE IF c = "-" THEN
              IF p + 1 < Len(chars) /\ IsDigit(chars[p + 2])
              THEN LET r == TokenParseNumber(chars, p + 1)
                   IN  LexOk(Number(WrappingMul(-1, r.value)), r.pos)
              ELSE LexOk(Minus, p + 1)
         ELSE IF c = "+" THEN LexOk(Plus, p + 1)
         ELSE IF c = "*" THEN LexOk(Times, p + 1)
         ELSE TokenNextSkipping(chars, p + 1)

\* Token::next, started with `p` characters consumed
RECURSIVE TokenNext(_, _)
TokenNext(chars, p) ==
    IF p >= Len(chars) THEN LexErr(StreamCompleted, p)
    ELSE LET c == chars[p + 1] IN
         IF IsWhitespace(c) THEN TokenNext(chars, p + 1)
         ELSE IF c = "(" THEN LexOk(OpenParen, p + 1)
         ELSE IF c = ")" THEN LexOk(CloseParen, p + 1)
         ELSE IF IsDigit(c) THEN
              LET r == TokenParseNumber(chars, p)
              IN  LexOk(Number(r.value), r.pos)
         ELSE IF c = "-" THEN
              IF p + 1 < Len(chars) /\ IsDigit(chars[p + 2])
              THEN LET r == TokenParseNumber(chars, p + 1)
                   IN  LexOk(Number(WrappingMul(-1, r.value)), r.pos)
              ELSE LexOk(Minus, p + 1)
         ELSE IF c = "+" THEN LexOk(Plus, p + 1)
         ELSE IF c = "*" THEN LexOk(Times, p + 1)
         ELSE LexErr(UnexpectedSymbol(c), p)

\* the end of the run of blanks that starts at character p + 1
RECURSIVE BlanksEnd(_, _)
BlanksEnd(chars, p) ==
    IF p < Len(chars) /\ IsWhitespace(chars[p + 1])
    THEN BlanksEnd(chars, p + 1)
    ELSE p

\* Token::next leaves the i32 range: in parse_number, or in `-1 * number`;
\* the panic of a build that checks overflow
TokenNextOverflows(chars, p) ==
    LET q == BlanksEnd(chars, p) IN
    /\ q < Len(chars)
    /\ IF IsDigit(chars[q + 1]) THEN TokenParseNumber(chars, q).overflowed
       ELSE /\ chars[q + 1] = "-"
            /\ q + 1 < Len(chars)
            /\ IsDigit(chars[q + 2])
            /\ LET r == TokenParseNumber(chars, q + 1)
               IN  r.overflowed \/ MulOverflows(-1, r.value)

(***************************************************************************)
(* The expression builder of parse.rs.                                     *)
(***************************************************************************)
Some(e) == [some |-> TRUE, exp |-> e]
None == [some |-> FALSE]

IsExpression(t) == t.tag = "Expression"

\* a mutant of ReducedPlus: no list merge, every '+' builds a two-operand node
ReducedPlusNested(a, b, la) ==
    IF la = Times THEN None ELSE Some(Add(<<a, b>>))

\* ExpBuilder::reduced, the three arms for [Expression, Plus, Expression]
ReducedPlus(a, b, la) ==
    IF IsAdd(a) THEN Some(Add(Append(a.args, b)))
    ELSE IF IsAdd(b) THEN Some(Add(<<a>> \o b.args))
    ELSE IF la = Times THEN None
    ELSE Some(Add(<<a, b>>))

\* ExpBuilder::reduced, the three arms for [Expression, Minus, Expression]
ReducedMinus(a, b, la) ==
    IF IsSub(a) THEN Some(Sub(Append(a.args, b)))
    ELSE IF IsAdd(b) THEN Some(Sub(<<a>> \o b.args))
    ELSE IF la = Times THEN None
    ELSE Some(Sub(<<a, b>>))

\* a mutant of Reduced: the arm for a number literal is missing
ReducedNoLiteral(stack, la, split) ==
    LET s == SubSeq(stack, split + 1, Len(stack)) IN
    IF Len(s) # 3 THEN None
    ELSE IF s[1] = OpenParen /\ IsExpression(s[2]) /\ s[3] = CloseParen
         THEN Some(s[2].exp)
    ELSE IF ~(IsExpression(s[1]) /\ IsExpression(s[3])) THEN None
    ELSE IF s[2] = Plus THEN ReducedPlus(s[1].exp, s[3].exp, la)
    ELSE IF s[2] = Minus THEN ReducedMinus(s[1].exp, s[3].exp, la)
    ELSE IF s[2] = Times THEN Some(Mul(<<s[1].exp, s[3].exp>>))
    ELSE None

\* ExpBuilder::reduced: the match on tokens[split..], arms in source order
Reduced(stack, la, split) ==
    LET s == SubSeq(stack, split + 1, Len(stack)) IN
    IF Len(s) = 1 /\ s[1].tag = "Number" THEN Some(Const(s[1].n))
    ELSE IF Len(s) # 3 THEN None
    ELSE IF s[1] = OpenParen /\ IsExpression(s[2]) /\ s[3] = CloseParen
         THEN Some(s[2].exp)
    ELSE IF ~(IsExpression(s[1]) /\ IsExpression(s[3])) THEN None
    ELSE IF s[2] = Plus THEN ReducedPlus(s[1].exp, s[3].exp, la)
    ELSE IF s[2] = Minus THEN ReducedMinus(s[1].exp, s[3].exp, la)
    ELSE IF s[2] = Times THEN Some(Mul(<<s[1].exp, s[3].exp>>))
    ELSE None

\* the splits at which ExpBuilder::reduced answers Some
Reducible(stack, la) ==
    {split \in 0..(Len(stack) - 1) : Reduced(stack, la, split).some}

\* ExpBuilder::reduce: the loop tries the splits from the last to the first
ReduceSplit(stack, la) ==
    CHOOSE split \in Reducible(stack, la) :
        \A other \in Reducible(stack, la) : other <= split

\* the stack after a reduce() that returned true
ReduceStack(stack, la) ==
    LET split_at == ReduceSplit(stack, la)
    IN  Append(SubSeq(stack, 1, split_at),
               Expression(Reduced(stack, la, split_at).exp))

\* a mutant of PushStack: what the lookahead field holds is shifted, a token
\* or not
PushStackAlways(stack, la) == Append(stack, la)

\* ExpBuilder::push: the stack after the held lookahead, if any, is shifted
PushStack(stack, la) == IF la = NoToken THEN stack ELSE Append(stack, la)

\* a mutant of BuildResult: the length of the stack is not checked
BuildResultLast(stack) ==
    IF stack # <<>> /\ IsExpression(stack[Len(stack)])
    THEN Ok(stack[Len(stack)].exp)
    ELSE Err(FinalItemNotToken)

\* ExpBuilder::build
BuildResult(stack) ==
    IF Len(stack) # 1 THEN Err(CouldNotBeParsed)
    ELSE IF IsExpression(stack[Len(stack)]) THEN Ok(stack[Len(stack)].exp)
    ELSE Err(FinalItemNotToken)

\* ExpBuilder::build pops the last token once the length check has passed
BuildStack(stack) ==
    IF Len(stack) # 1 THEN stack ELSE SubSeq(stack, 1, Len(stack) - 1)

(***************************************************************************)
(* The builder with its operand lists held as the code holds them: an      *)
(* operator node carries an Rc handle, `arguments` is what the handles     *)
(* point to, and a clone of a node is the same handle again.               *)
(***************************************************************************)
\* Exp::Add(arguments), Exp::Sub(arguments): the node around a handle
OpRc(op, rc) == [tag |-> "Op", op |-> op, rc |-> rc]

\* Rc::new(RefCell::new(vec)): the list behind a new handle
RcNew(heap, vec) == Append(heap, vec)

\* arguments.borrow_mut().push_back(e)
PushBack(heap, rc, e) == [heap EXCEPT ![rc] = Append(@, e)]

\* arguments.borrow_mut().push_front(e)
PushFront(heap, rc, e) == [heap EXCEPT ![rc] = <<e>> \o @]

\* what reduced() returns, with the operand lists as it leaves them
SomeRc(e, heap) == [some |-> TRUE, exp |-> e, arguments |-> heap]
NoneRc(heap) == [some |-> FALSE, arguments |-> heap]

\* a mutant of RcReducedPlus: the merge arms push first and look at the
\* lookahead afterwards
RcReducedPlusLate(a, b, la, heap) ==
    IF IsAdd(a)
    THEN IF la = Times THEN NoneRc(PushBack(heap, a.rc, b))
         ELSE SomeRc(OpRc("Add", a.rc), PushBack(heap, a.rc, b))
    ELSE IF IsAdd(b)
    THEN IF la = Times THEN NoneRc(PushFront(heap, b.rc, a))
         ELSE SomeRc(OpRc("Add", b.rc), PushFront(heap, b.rc, a))
    ELSE IF la = Times THEN NoneRc(heap)
    ELSE SomeRc(OpRc("Add", Len(heap) + 1), RcNew(heap, <<a, b>>))

\* ExpBuilder::reduced, the three arms for [Expression, Plus, Expression]
RcReducedPlus(a, b, la, heap) ==
    IF IsAdd(a) THEN SomeRc(OpRc("Add", a.rc), PushBack(heap, a.rc, b))
    ELSE IF IsAdd(b) THEN SomeRc(OpRc("Add", b.rc), PushFront(heap, b.rc, a))
    ELSE IF la = Times THEN NoneRc(heap)
    ELSE SomeRc(OpRc("Add", Len(heap) + 1), RcNew(heap, <<a, b>>))

\* ExpBuilder::reduced, the three arms for [Expression, Minus, Expression]
RcReducedMinus(a, b, la, heap) ==
    IF IsSub(a) THEN SomeRc(OpRc("Sub", a.rc), PushBack(heap, a.rc, b))
    ELSE IF IsAdd(b) THEN SomeRc(OpRc("Sub", b.rc), PushFront(heap, b.rc, a))
    ELSE IF la = Times THEN NoneRc(heap)
    ELSE SomeRc(OpRc("Sub", Len(heap) + 1), RcNew(heap, <<a, b>>))

\* ExpBuilder::reduced: the match on tokens[split..], arms in source order,
\* with what it does to the operand lists
RcReduced(stack, la, heap, split) ==
    LET s == SubSeq(stack, split + 1, Len(stack)) IN
    IF Len(s) = 1 /\ s[1].tag = "Number" THEN SomeRc(Const(s[1].n), heap)
    ELSE IF Len(s) # 3 THEN NoneRc(heap)
    ELSE IF s[1] = OpenParen /\ IsExpression(s[2]) /\ s[3] = CloseParen
         THEN SomeRc(s[2].exp, heap)
    ELSE IF ~(IsExpression(s[1]) /\ IsExpression(s[3])) THEN NoneRc(heap)
    ELSE IF s[2] = Plus THEN RcReducedPlus(s[1].exp, s[3].exp, la, heap)
    ELSE IF s[2] = Minus THEN RcReducedMinus(s[1].exp, s[3].exp, la, heap)
    ELSE IF s[2] = Times
         THEN SomeRc(OpRc("Mul", Len(heap) + 1),
                     RcNew(heap, <<s[1].exp, s[3].exp>>))
    ELSE NoneRc(heap)

\* ExpBuilder::reduce, its loop from `split` down to 0: whether an arm
\* fired, and the stack and the operand lists when the call returns
RECURSIVE RcReduceFrom(_, _, _, _)
RcReduceFrom(stack, la, heap, split) ==
    IF split < 0
    THEN [fired |-> FALSE, tokens |-> stack, arguments |-> heap]
    ELSE LET r == RcReduced(stack, la, heap, split)
         IN  IF r.some
             THEN [fired |-> TRUE,
                   tokens |-> Append(SubSeq(stack, 1, split),
                                     Expression(r.exp)),
                   arguments |-> r.arguments]
             ELSE RcReduceFrom(stack, la, r.arguments, split - 1)

\* ExpBuilder::reduce
RcReduce(stack, la, heap) == RcReduceFrom(stack, la, heap, Len(stack) - 1)

(***************************************************************************)
(* The evaluator of eval.rs.  Values are tagged like enum Value; an        *)
(* evaluation returns the value together with the randomness outputs that  *)
(* are left, since every draw advances the one source.                     *)
(***************************************************************************)
VConst(n) == [tag |-> "Const", n |-> n]
VOp(op, values) == [tag |-> "Op", op |-> op, values |-> values]
Rolled(dice, sides, kept) ==
    [tag |-> "Rolled", dice |-> dice, sides |-> sides, kept |-> kept]
KeptAll == [rule |-> "All"]
KeptLowest(n) == [rule |-> "Lowest", n |-> n]
KeptHighest(n) == [rule |-> "Highest", n |-> n]
Kept(keep, retained, lowest, highest) ==
    [keep |-> keep, retained |-> retained, lowest |-> lowest,
     highest |-> highest]

\* i32::unsigned_abs.  The u32 is held as the i32 of the same 32 bits, so
\* the one result beyond I32Max, 2^31, is held as I32Min
UnsignedAbs(n) == IF n < 0 THEN WrappingSub(0, n) ELSE n

\* Iterator::sum over i32: the fold from 0, left to right
RECURSIVE SeqSum(_, _)
SeqSum(acc, s) ==
    IF s = <<>> THEN acc
    ELSE SeqSum(Checked(WrappingAdd(acc.n, Head(s)),
                        acc.overflowed \/ AddOverflows(acc.n, Head(s))),
                Tail(s))

\* a mutant of KeptVal: both partitions are summed
KeptValEverything(kept) ==
    SeqSum(Checked(0, FALSE), kept.lowest \o kept.highest)

\* Kept::val: the partition the rule designates, summed
KeptVal(kept) ==
    IF kept.keep.rule = "Lowest" THEN SeqSum(Checked(0, FALSE), kept.lowest)
    ELSE SeqSum(Checked(0, FALSE), kept.highest)

\* Rolled::val
RolledVal(rolled) == KeptVal(rolled.kept)

\* Value::value: sum() folds from 0, product() from 1, the Sub arm from the
\* value of the first operand; each in the order of the operands
RECURSIVE ValueChecked(_)
RECURSIVE SumValues(_, _)
RECURSIVE ProductValues(_, _)
RECURSIVE SubtractValues(_, _)
SumValues(acc, values) ==
    IF values = <<>> THEN acc
    ELSE LET v == ValueChecked(Head(values))
         IN  SumValues(Checked(WrappingAdd(acc.n, v.n),
                               \/ acc.overflowed
                               \/ v.overflowed
                               \/ AddOverflows(acc.n, v.n)),
                       Tail(values))
ProductValues(acc, values) ==
    IF values = <<>> THEN acc
    ELSE LET v == ValueChecked(Head(values))
         IN  ProductValues(Checked(WrappingMul(acc.n, v.n),
                                   \/ acc.overflowed
                                   \/ v.overflowed
                                   \/ MulOverflows(acc.n, v.n)),
                           Tail(values))
\* a mutant of SubtractValues: the operands after the first are added
SubtractValuesAdding(acc, values) == SumValues(acc, values)

SubtractValues(acc, values) ==
    IF values = <<>> THEN acc
    ELSE LET v == ValueChecked(Head(values))
         IN  SubtractValues(Checked(WrappingSub(acc.n, v.n),
                                    \/ acc.overflowed
                                    \/ v.overflowed
                                    \/ SubOverflows(acc.n, v.n)),
                            Tail(values))
ValueChecked(v) ==
    IF v.tag = "Const" THEN Checked(v.n, FALSE)
    ELSE IF v.tag = "Rolled" THEN RolledVal(v)
    ELSE IF v.op = "Add" THEN SumValues(Checked(0, FALSE), v.values)
    ELSE IF v.op = "Sub"
         THEN SubtractValues(ValueChecked(Head(v.values)), Tail(v.values))
    ELSE ProductValues(Checked(1, FALSE), v.values)

\* the number value() returns where it returns: the wrapped result
ValueOf(v) == ValueChecked(v).n

\* some step of value() leaves the i32 range: the panic of a checking build
ValueOverflows(v) == ValueChecked(v).overflowed

\* The randomness source: the outputs it yields and how many were taken.
Source(outputs) == [outputs |-> outputs, taken |-> 0]

\* a mutant of NextU32: the source repeats its first output
NextU32First(r) == IF Len(r.outputs) > 0 THEN r.outputs[1] ELSE 0

\* MockRng::next_u32: the next output of the sequence, 0 once it has run out
NextU32(r) ==
    IF r.taken < Len(r.outputs) THEN r.outputs[r.taken + 1] ELSE 0
Advance(r) == [r EXCEPT !.taken = r.taken + 1]

\* u32 % u32 for an output x below 2^31, as every output of the model's
\* sources is; m < 0 holds the number of sides 2^31, above every such x
U32Rem(x, m) == IF m < 0 THEN x ELSE x % m

\* a mutant of DieFace: a zero-sided die is rolled as a one-sided die
DieFaceOneSided(sides, r) ==
    IF sides = 0 \/ sides = 1 THEN 1
    ELSE IF U32Rem(NextU32(r), sides) = 0 THEN sides
    ELSE U32Rem(NextU32(r), sides)

\* one die of Roll::val: no draw for a zero-sided die, else the residue of
\* one output, the zero residue wrapped to the highest face; `result as i32`
\* keeps the 32 bits
DieFace(sides, r) ==
    IF sides = 0 THEN 0
    ELSE IF U32Rem(NextU32(r), sides) = 0 THEN sides
    ELSE U32Rem(NextU32(r), sides)

\* the loop of Roll::val over 0..dice.value().max(0)
RECURSIVE RollDice(_, _, _, _)
RollDice(count, sides, r, rolled) ==
    IF count <= 0 THEN [rolled |-> rolled, rng |-> r]
    ELSE RollDice(count - 1, sides,
                  IF sides = 0 THEN r ELSE Advance(r),
                  Append(rolled, DieFace(sides, r)))

\* a mutant of SplitIndex: keep-highest splits where keep-lowest does
SplitIndexFromStart(rule, n, len) == n

\* the index at which Keep::retain splits the sorted rolls
SplitIndex(rule, n, len) == IF rule = "Lowest" THEN n ELSE len - n

\* a mutant of RetainCount: a negative request keeps as many as its size
RetainCountUnfloored(requested, len) ==
    Min(IF requested < 0 THEN 0 - requested ELSE requested, len)

\* the legal number of elements to keep, in Keep::retain
RetainCount(requested, len) == Min(Max(requested, 0), len)

Evaluated(v, r) == [value |-> v, rng |-> r]

RECURSIVE Evaluate(_, _)
RECURSIVE EvaluateArguments(_, _, _)
RECURSIVE RollVal(_, _)
RECURSIVE KeepRetain(_, _, _)

\* a mutant of EvaluateArguments: the operands are evaluated last to first
RECURSIVE EvaluateArgumentsBackwards(_, _, _)
EvaluateArgumentsBackwards(args, r, values) ==
    IF args = <<>> THEN Evaluated(values, r)
    ELSE LET last == Evaluate(args[Len(args)], r)
         IN  EvaluateArgumentsBackwards(SubSeq(args, 1, Len(args) - 1),
                                        last.rng, <<last.value>> \o values)

\* Op::value: the operands in order, each drawing from the same source
EvaluateArguments(args, r, values) ==
    IF args = <<>> THEN Evaluated(values, r)
    ELSE LET first == Evaluate(Head(args), r)
         IN  EvaluateArguments(Tail(args), first.rng,
                               Append(values, first.value))

\* Keep::retain
KeepRetain(keep, elements, r) ==
    IF keep.rule = "All"
    THEN Evaluated(Kept(KeptAll, VConst(Len(elements)), <<>>, elements), r)
    ELSE LET retained == Evaluate(keep.count, r)
             n == RetainCount(ValueOf(retained.value), Len(elements))
             index == SplitIndex(keep.rule, n, Len(elements))
         IN  Evaluated(
                 Kept(IF keep.rule = "Lowest" THEN KeptLowest(VConst(n))
                      ELSE KeptHighest(VConst(n)),
                      retained.value,
                      SubSeq(elements, 1, index),
                      SubSeq(elements, index + 1, Len(elements))),
                 retained.rng)

\* a mutant of RollVal: a negative dice count rolls as many dice as its size
RollValAbsDice(roll, r) ==
    LET sides == Evaluate(roll.sides, r)
        _sides == UnsignedAbs(ValueOf(sides.value))
        dice == Evaluate(roll.dice, sides.rng)
        drawn == RollDice(UnsignedAbs(ValueOf(dice.value)), _sides, dice.rng,
                          <<>>)
        rolled == SortSeq(drawn.rolled, LAMBDA x, y : x < y)
        kept == KeepRetain(roll.keep, rolled, drawn.rng)
    IN  Evaluated(Rolled(dice.value, sides.value, kept.value), kept.rng)

\* a mutant of RollVal: the rolled values are not sorted
RollValUnsorted(roll, r) ==
    LET sides == Evaluate(roll.sides, r)
        _sides == UnsignedAbs(ValueOf(sides.value))
        dice == Evaluate(roll.dice, sides.rng)
        drawn == RollDice(Max(ValueOf(dice.value), 0), _sides, dice.rng, <<>>)
        kept == KeepRetain(roll.keep, drawn.rolled, drawn.rng)
    IN  Evaluated(Rolled(dice.value, sides.value, kept.value), kept.rng)

\* a mutant of RollVal: the dice are evaluated before the sides
RollValDiceFirst(roll, r) ==
    LET dice == Evaluate(roll.dice, r)
        sides == Evaluate(roll.sides, dice.rng)
        _sides == UnsignedAbs(ValueOf(sides.value))
        drawn == RollDice(Max(ValueOf(dice.value), 0), _sides, sides.rng, <<>>)
        rolled == SortSeq(drawn.rolled, LAMBDA x, y : x < y)
        kept == KeepRetain(roll.keep, rolled, drawn.rng)
    IN  Evaluated(Rolled(dice.value, sides.value, kept.value), kept.rng)

\* Roll::val
RollVal(roll, r) ==
    LET sides == Evaluate(roll.sides, r)
        _sides == UnsignedAbs(ValueOf(sides.value))
        dice == Evaluate(roll.dice, sides.rng)
        drawn == RollDice(Max(ValueOf(dice.value), 0), _sides, dice.rng, <<>>)
        rolled == SortSeq(drawn.rolled, LAMBDA x, y : x < y)
        kept == KeepRetain(roll.keep, rolled, drawn.rng)
    IN  Evaluated(Rolled(dice.value, sides.value, kept.value), kept.rng)

\* Exp::evaluate
Evaluate(exp, r) ==
    IF exp.tag = "Const" THEN Evaluated(VConst(exp.n), r)
    ELSE IF exp.tag = "Roll" THEN RollVal(exp, r)
    ELSE LET operands == EvaluateArguments(exp.args, r, <<>>)
         IN  Evaluated(VOp(exp.op, operands.value), operands.rng)

\* a mutant of Borrowed: evaluate takes the tree and leaves Exp::default()
BorrowedTaken(exp) == Const(0)

\* the tree evaluate leaves behind.  Exp::evaluate takes &self and reaches
\* the operand list and the roll through RefCell::borrow(), the shared
\* borrow: nothing is written through it, and it has ended when evaluate
\* returns or unwinds
Borrowed(exp) == exp

\* the calls of value() inside an evaluation that gave v, each a place where
\* a build that checks overflow can panic: on the sides and the dice in
\* Roll::val, on the retained count in Keep::retain
RECURSIVE EvaluateOverflows(_)
EvaluateOverflows(v) ==
    IF v.tag = "Const" THEN FALSE
    ELSE IF v.tag = "Op"
         THEN \E i \in 1..Len(v.values) : EvaluateOverflows(v.values[i])
    ELSE \/ EvaluateOverflows(v.sides) \/ ValueOverflows(v.sides)
         \/ EvaluateOverflows(v.dice) \/ ValueOverflows(v.dice)
         \/ EvaluateOverflows(v.kept.retained)
         \/ ValueOverflows(v.kept.retained)

\* Token::tokenize from `p` characters consumed, `acc` the tokens so far
RECURSIVE TokenizeFrom(_, _, _)
TokenizeFrom(chars, p, acc) ==
    IF p >= Len(chars) THEN [ok |-> TRUE, tokens |-> Append(acc, EndOfStream)]
    ELSE LET r == TokenNext(chars, p)
         IN  IF r.ok THEN TokenizeFrom(chars, r.pos, Append(acc, r.tok))
             ELSE [ok |-> FALSE, err |-> r.err]

TokenTokenize(chars) == TokenizeFrom(chars, 0, <<>>)

\* `while exp_builder.reduce() {}`
RECURSIVE ReduceToFixpoint(_, _)
ReduceToFixpoint(stack, la) ==
    IF Reducible(stack, la) = {} THEN stack
    ELSE ReduceToFixpoint(ReduceStack(stack, la), la)

\* the for loop of parse() from the token at index `i` on
RECURSIVE FeedFrom(_, _, _, _)
FeedFrom(toks, i, stack, la) ==
    IF i > Len(toks) THEN stack
    ELSE FeedFrom(toks, i + 1,
                  ReduceToFixpoint(PushStack(stack, la), toks[i]), toks[i])

\* parse(), as the function of its text
Parse(chars) ==
    LET t == TokenTokenize(chars)
    IN  IF ~t.ok THEN Err(t.err)
        ELSE BuildResult(FeedFrom(t.tokens, 1, <<>>, NoToken))

\* the builder, evaluate and value() run on a token sequence, as main()
\* runs them on the tokens of its text; no output when the builder fails
RunTokens(toks) ==
    LET built == BuildResult(FeedFrom(toks, 1, <<>>, NoToken))
    IN  IF built.ok
        THEN Output(ValueOf(Evaluate(built.exp, Source(<<>>)).value))
        ELSE NoOutput

(***************************************************************************)
(* The streaming lexer of tokenize.rs.  Its Token has Operation(op), Die,  *)
(* KeepHighest and KeepLowest where the Token of parse.rs has Plus, Minus  *)
(* and Times; the other tokens are the same.                               *)
(***************************************************************************)
Operation(op) == [tag |-> "Operation", op |-> op]
Die == [tag |-> "Die"]
TokenKeepHighest == [tag |-> "KeepHighest"]
TokenKeepLowest == [tag |-> "KeepLowest"]

\* Tokenizer::parse_number: `first` is the p-th character, already consumed
TokenizerParseNumber(chars, p) ==
    LET end == DigitRunEnd(chars, p)
        digit_buffer == <<chars[p]>> \o SubSeq(chars, p + 1, end)
        sum == DigitSum(digit_buffer, Len(digit_buffer))
    IN  [value |-> sum.n, overflowed |-> sum.overflowed, pos |-> end]

\* a mutant of TokenizerMinus: '-' is always the operator
TokenizerMinusNeverFolded(chars, p) == LexOk(Operation("Sub"), p)

\* Tokenizer::next_token, the '-' arm: the '-' is the p-th character
TokenizerMinus(chars, p) ==
    IF p < Len(chars) /\ IsDigit(chars[p + 1])
    THEN LET r == TokenizerParseNumber(chars, p + 1)
         IN  LexOk(Number(WrappingMul(-1, r.value)), r.pos)
    ELSE LexOk(Operation("Sub"), p)

\* Tokenizer::next_token leaves the i32 range: in parse_number, or in
\* `-1 * number`; the panic of a build that checks overflow
TokenizerNextOverflows(chars, p) ==
    LET q == BlanksEnd(chars, p) IN
    /\ q < Len(chars)
    /\ IF IsDigit(chars[q + 1])
       THEN TokenizerParseNumber(chars, q + 1).overflowed
       ELSE /\ chars[q + 1] = "-"
            /\ q + 1 < Len(chars)
            /\ IsDigit(chars[q + 2])
            /\ LET r == TokenizerParseNumber(chars, q + 2)
               IN  r.overflowed \/ MulOverflows(-1, r.value)

\* a mutant of TokenizerKeep: the character that follows 'k' is consumed
TokenizerKeepConsuming(chars, p) ==
    IF p >= Len(chars) THEN LexErr(StreamCompleted, p)
    ELSE IF chars[p + 1] = "l" THEN LexOk(TokenKeepLowest, p + 1)
    ELSE IF IsDigit(chars[p + 1]) \/ chars[p + 1] \in {"(", "h"}
         THEN LexOk(TokenKeepHighest, p + 1)
    ELSE LexErr(UnexpectedSymbol(chars[p + 1]), p + 1)

\* Tokenizer::next_token, the 'k' arm: the 'k' is the p-th character
TokenizerKeep(chars, p) ==
    IF p >= Len(chars) THEN LexErr(StreamCompleted, p)
    ELSE IF IsDigit(chars[p + 1]) \/ chars[p + 1] = "("
         THEN LexOk(TokenKeepHighest, p)
    ELSE IF chars[p + 1] = "h" THEN LexOk(TokenKeepHighest, p + 1)
    ELSE IF chars[p + 1] = "l" THEN LexOk(TokenKeepLowest, p + 1)
    ELSE LexErr(UnexpectedSymbol(chars[p + 1]), p)

\* Tokenizer::next_token, started with `p` characters consumed; chars.next()
\* consumes the character it matches on
RECURSIVE TokenizerNextToken(_, _)
TokenizerNextToken(chars, p) ==
    IF p >= Len(chars) THEN LexErr(StreamCompleted, p)
    ELSE LET c == chars[p + 1] IN
         IF IsWhitespace(c) THEN TokenizerNextToken(chars, p + 1)
         ELSE IF c = "(" THEN LexOk(OpenParen, p + 1)
         ELSE IF c = ")" THEN LexOk(CloseParen, p + 1)
         ELSE IF IsDigit(c) THEN
              LET r == TokenizerParseNumber(chars, p + 1)
              IN  LexOk(Number(r.value), r.pos)
         ELSE IF c = "-" THEN TokenizerMinus(chars, p + 1)
         ELSE IF c = "+" THEN LexOk(Operation("Add"), p + 1)
         ELSE IF c = "*" THEN LexOk(Operation("Mul"), p + 1)
         ELSE IF c = "d" THEN LexOk(Die, p + 1)
         ELSE IF c = "k" THEN TokenizerKeep(chars, p + 1)
         ELSE LexErr(UnexpectedSymbol(c), p + 1)

\* what Iterator::next returns: Some(Ok(token)), Some(Err(message)) or None
SomeOk(t) == [some |-> TRUE, ok |-> TRUE, tok |-> t]
SomeErr(m) == [some |-> TRUE, ok |-> FALSE, err |-> m]
NoItem == [some |-> FALSE]

Stepped(item, p, passed) ==
    [item |-> item, pos |-> p, has_passed_eof |-> passed]

\* a mutant of TokenizerNext: has_passed_eof is never set
TokenizerNextForgetful(chars, p, passed) ==
    IF p < Len(chars)
    THEN LET r == TokenizerNextToken(chars, p)
         IN  Stepped(IF r.ok THEN SomeOk(r.tok) ELSE SomeErr(r.err), r.pos,
                     passed)
    ELSE Stepped(SomeOk(EndOfStream), p, passed)

\* Tokenizer::next (the Iterator), with `p` characters consumed
TokenizerNext(chars, p, passed) ==
    IF p < Len(chars)
    THEN LET r == TokenizerNextToken(chars, p)
         IN  Stepped(IF r.ok THEN SomeOk(r.tok) ELSE SomeErr(r.err), r.pos,
                     passed)
    ELSE IF ~passed THEN Stepped(SomeOk(EndOfStream), p, TRUE)
    ELSE Stepped(NoItem, p, passed)

(***************************************************************************)
(* The inputs.  Every text of at most MaxLen characters over Alphabet, and *)
(* every well-formed expression with at most MaxMixSize operators and      *)
(* parenthesis pairs (MaxPlusSize when '+' is the only operator), its k-th *)
(* literal the digit k and its operators set between blanks.               *)
(***************************************************************************)
Alphabet == {"0", "1", "2", "+", "-", "*", "(", ")", " ", "$", "d"}

ShortTexts == UNION {[1..n -> Alphabet] : n \in 0..MaxLen}

RECURSIVE ExprShapes(_, _)
RECURSIVE ItemShapes(_, _)
ItemShapes(size, ops) ==
    IF size = 0 THEN {<<"n">>}
    ELSE {<<"(">> \o e \o <<")">> : e \in ExprShapes(size - 1, ops)}
ExprShapes(size, ops) ==
    ItemShapes(size, ops) \cup
    UNION {{e \o <<o>> \o i : e \in ExprShapes(a, ops), o \in ops,
                              i \in ItemShapes(size - 1 - a, ops)}
           : a \in 0..(size - 1)}

RECURSIVE Render(_, _)
Render(shape, k) ==
    IF shape = <<>> THEN <<>>
    ELSE LET c == Head(shape) IN
         IF c = "n" THEN <<Digits[(k % 9) + 2]>> \o Render(Tail(shape), k + 1)
         ELSE IF c \in {"(", ")"} THEN <<c>> \o Render(Tail(shape), k)
         ELSE <<" ", c, " ">> \o Render(Tail(shape), k)

ExprTexts ==
    {Render(s, 0) :
        s \in UNION {ExprShapes(z, {"+", "-", "*"}) : z \in 0..MaxMixSize}
              \cup UNION {ExprShapes(z, {"+"}) : z \in 0..MaxPlusSize}}

\* the texts the specification and the tests of parse.rs name
Examples ==
    {<<"4", "2">>,
     <<"-", "4", "3", "2">>,
     <<"2", " ", "+">>,
     <<"2", " ", "$", " ", "3">>,
     <<"d", "6">>,
     <<"3", "d", "6">>,
     <<"1", " ", "-", " ", "-", "2">>,
     <<"4", " ", "+", " ", "2", " ", "*", " ", "-", "3">>,
     <<"(", "4", " ", "+", " ", "2", ")", " ", "*", " ", "-", "3">>,
     <<"0", " ", "+", " ", "(", "(", "1", ")", " ", "+", " ", "2", ")",
       " ", "+", " ", "3">>}

\* 'a - (b - c)' and 'a - (b + c)' over a few literals
Literal ==
    {<<"0">>, <<"2">>, <<"-", "1">>, <<"1", "0">>}

GroupedTexts ==
    {a \o <<" ", "-", " ", "(">> \o b \o <<" ", o, " ">> \o c \o <<")">> :
        a \in Literal, b \in Literal, c \in Literal, o \in {"-", "+"}}

Inputs == ShortTexts \cup ExprTexts \cup Examples \cup GroupedTexts

(***************************************************************************)
(* The trees and randomness sequences an evaluation is started from.       *)
(***************************************************************************)
Consts == {Const(n) : n \in (-1)..MaxConst}

Keeps(counts) ==
    {KeepAll} \cup {KeepHighest(c) : c \in counts}
              \cup {KeepLowest(c) : c \in counts}

SimpleRolls == {Roll(d, s, k) : d \in Consts, s \in Consts, k \in Keeps(Consts)}

\* sub-expressions that are not constants: a roll, and operator nodes
Inner ==
    {Roll(Const(1), Const(MaxConst), KeepAll),
     Roll(Const(2), Const(0), KeepAll),
     Sub(<<Const(1), Const(1)>>),
     Add(<<Const(1), Const(1)>>)}

NestedRolls ==
    {Roll(d, s, k) : d \in Inner \cup {Const(2), Const(-1)},
                     s \in Inner \cup {Const(2)},
                     k \in Keeps(Inner)}

\* the rolls and the randomness sequences the specification and the tests of
\* eval.rs name: 1d6 on 3, 3d6k2 on 2,3,4, (1d6)d6 on 2,3,4
ExampleRolls ==
    {Roll(Const(1), Const(6), KeepAll),
     Roll(Const(3), Const(6), KeepHighest(Const(2))),
     Roll(Roll(Const(1), Const(6), KeepAll), Const(6), KeepAll)}

ExampleSeqs == {<<3>>, <<2, 3, 4>>}

\* texts whose value leaves the i32 range, or is its least number:
\* 2147483647 + 1, 65536 * 65536 and -2147483647 - 1
WideTexts ==
    {<<"2", "1", "4", "7", "4", "8", "3", "6", "4", "7", " ", "+", " ", "1">>,
     <<"6", "5", "5", "3", "6", " ", "*", " ", "6", "5", "5", "3", "6">>,
     <<"-", "2", "1", "4", "7", "4", "8", "3", "6", "4", "7", " ", "-", " ",
       "1">>}

\* the trees parse() returns for them, and the rolls of such sides or dice
WideExps == {Parse(t).exp : t \in WideTexts}

WideRolls ==
    {Roll(d, s, KeepAll) : d \in WideExps \cup {Const(1)},
                           s \in WideExps \cup {Const(1)}}

\* operator nodes of one to three operands, a roll among them
Operands ==
    {Const(-1), Const(2), Const(MaxConst),
     Roll(Const(1), Const(MaxConst), KeepAll)}

OpExps ==
    {OpExp(op, args) : op \in {"Add", "Sub", "Mul"},
                       args \in UNION {[1..n -> Operands] : n \in 1..3}}

EvalExps ==
    Consts \cup SimpleRolls \cup NestedRolls \cup Inner \cup ExampleRolls
           \cup WideExps \cup WideRolls \cup OpExps

RngSeqs == [1..MaxDraws -> 0..MaxRng] \cup ExampleSeqs

(***************************************************************************)
(* The program: parse(expression), then evaluate, then value(), as main()  *)
(* runs them.                                                              *)
(***************************************************************************)
\* main() hands evaluate a ThreadRng; the source is modelled by the sequence
\* it yields, and a run started from text is given the empty one
Init ==
    /\ input \in Inputs
    /\ pos = 0
    /\ tokenized = <<>>
    /\ fed = 0
    /\ lookahead = NoToken
    /\ tokens = <<>>
    /\ parsed = NoResult
    /\ rng = Source(<<>>)
    /\ evaluated = NoValue
    /\ output = NoOutput
    /\ pc = "tokenize"
    /\ overflow_checks \in BOOLEAN
    /\ has_passed_eof = FALSE
    /\ yielded = <<>>
    /\ arguments = <<>>

\* Token::tokenize, one turn of its loop: the next token, or parse()
\* returning the lexer's error, or the panic of a build that checks overflow
\* when the number read leaves the i32 range
TokenizeNext ==
    /\ pc = "tokenize"
    /\ pos < Len(input)
    /\ LET r == TokenNext(input, pos) IN
       IF overflow_checks /\ TokenNextOverflows(input, pos)
       THEN /\ pc' = "panicked"
            /\ UNCHANGED <<tokenized, pos, parsed>>
       ELSE IF r.ok
       THEN /\ tokenized' = Append(tokenized, r.tok)
            /\ pos' = r.pos
            /\ UNCHANGED <<parsed, pc>>
       ELSE /\ parsed' = Err(r.err)
            /\ pc' = "parsed"
            /\ UNCHANGED <<tokenized, pos>>
    /\ UNCHANGED <<input, fed, lookahead, tokens, rng, evaluated, output>>
    /\ UNCHANGED <<overflow_checks, has_passed_eof, yielded, arguments>>

\* Token::tokenize, its loop left: EndOfStream is pushed
TokenizeEnd ==
    /\ pc = "tokenize"
    /\ pos >= Len(input)
    /\ tokenized' = Append(tokenized, EndOfStream)
    /\ pc' = "push"
    /\ UNCHANGED <<input, pos, fed, lookahead, tokens, parsed, rng, evaluated,
                   output>>
    /\ UNCHANGED <<overflow_checks, has_passed_eof, yielded, arguments>>

\* exp_builder.push(token) for the next token of the for loop
Push ==
    /\ pc = "push"
    /\ fed < Len(tokenized)
    /\ tokens' = PushStack(tokens, lookahead)
    /\ lookahead' = tokenized[fed + 1]
    /\ fed' = fed + 1
    /\ pc' = "reduce"
    /\ UNCHANGED <<input, pos, tokenized, parsed, rng, evaluated, output>>
    /\ UNCHANGED <<overflow_checks, has_passed_eof, yielded, arguments>>

\* exp_builder.reduce() returning true
Reduce ==
    /\ pc = "reduce"
    /\ Reducible(tokens, lookahead) # {}
    /\ tokens' = ReduceStack(tokens, lookahead)
    /\ UNCHANGED <<input, pos, tokenized, fed, lookahead, parsed, rng,
                   evaluated, output, pc>>
    /\ UNCHANGED <<overflow_checks, has_passed_eof, yielded, arguments>>

\* exp_builder.reduce() returning false: the while loop ends
ReduceEnd ==
    /\ pc = "reduce"
    /\ Reducible(tokens, lookahead) = {}
    /\ pc' = IF fed < Len(tokenized) THEN "push" ELSE "build"
    /\ UNCHANGED <<input, pos, tokenized, fed, lookahead, tokens, parsed, rng,
                   evaluated, output>>
    /\ UNCHANGED <<overflow_checks, has_passed_eof, yielded, arguments>>

\* exp_builder.build()
Build ==
    /\ pc = "build"
    /\ parsed' = BuildResult(tokens)
    /\ tokens' = BuildStack(tokens)
    /\ pc' = "parsed"
    /\ UNCHANGED <<input, pos, tokenized, fed, lookahead, rng, evaluated,
                   output>>
    /\ UNCHANGED <<overflow_checks, has_passed_eof, yielded, arguments>>

\* parsed.evaluate(&mut rng): the Value, or the panic of a build that checks
\* overflow when a value() called inside evaluate overflows
EvaluateParsed ==
    /\ pc = "parsed"
    /\ parsed.ok
    /\ LET r == Evaluate(parsed.exp, rng) IN
       IF overflow_checks /\ EvaluateOverflows(r.value)
       THEN /\ pc' = "panicked"
            /\ UNCHANGED <<evaluated, rng>>
       ELSE /\ evaluated' = r.value
            /\ rng' = r.rng
            /\ pc' = "evaluated"
    /\ parsed' = Ok(Borrowed(parsed.exp))
    /\ UNCHANGED <<input, pos, tokenized, fed, lookahead, tokens, output>>
    /\ UNCHANGED <<overflow_checks, has_passed_eof, yielded, arguments>>

\* evaluated.value(): the number, or the panic of a build that checks
\* overflow when the sum, difference or product leaves the i32 range
PrintValue ==
    /\ pc = "evaluated"
    /\ IF overflow_checks /\ ValueOverflows(evaluated)
       THEN /\ pc' = "panicked"
            /\ UNCHANGED output
       ELSE /\ output' = Output(ValueOf(evaluated))
            /\ pc' = "printed"
    /\ UNCHANGED <<input, pos, tokenized, fed, lookahead, tokens, parsed, rng,
                   evaluated>>
    /\ UNCHANGED <<overflow_checks, has_passed_eof, yielded, arguments>>

Next ==
    \/ TokenizeNext
    \/ TokenizeEnd
    \/ Push
    \/ Reduce
    \/ ReduceEnd
    \/ Build
    \/ EvaluateParsed
    \/ PrintValue

Spec == Init /\ [][Next]_vars

\* Token::tokenize meets a literal outside the i32 range at or after `p`
RECURSIVE TokenizeOverflowsFrom(_, _)
TokenizeOverflowsFrom(chars, p) ==
    /\ p < Len(chars)
    /\ \/ TokenNextOverflows(chars, p)
       \/ LET r == TokenNext(chars, p)
          IN  r.ok /\ TokenizeOverflowsFrom(chars, r.pos)

\* parse() once `Token::tokenize(input)?` has handed it the tokens: the
\* builder is new and nothing has been pushed
InitBuilder ==
    /\ input \in Inputs
    /\ overflow_checks \in BOOLEAN
    /\ TokenTokenize(input).ok
    /\ ~(overflow_checks /\ TokenizeOverflowsFrom(input, 0))
    /\ pos = Len(input)
    /\ tokenized = TokenTokenize(input).tokens
    /\ fed = 0
    /\ lookahead = NoToken
    /\ tokens = <<>>
    /\ parsed = NoResult
    /\ rng = Source(<<>>)
    /\ evaluated = NoValue
    /\ output = NoOutput
    /\ pc = "push"
    /\ has_passed_eof = FALSE
    /\ yielded = <<>>
    /\ arguments = <<>>

\* the steps of the builder in parse(): the for loop, the loop of
\* reductions inside it, and build()
NextBuilder ==
    \/ Push
    \/ Reduce
    \/ ReduceEnd
    \/ Build

\* parse() runs on: its for loop and the while loop inside it are one
\* sequential thread, so a shift or a reduction attempt that can be made is
\* made
FairSpec ==
    /\ InitBuilder
    /\ [][NextBuilder]_vars
    /\ WF_vars(Push)
    /\ WF_vars(Reduce)
    /\ WF_vars(ReduceEnd)

\* exp_builder.reduce() returning true, the operand lists behind their
\* handles
ReduceRc ==
    /\ pc = "reduce"
    /\ LET r == RcReduce(tokens, lookahead, arguments) IN
       /\ r.fired
       /\ tokens' = r.tokens
       /\ arguments' = r.arguments
    /\ UNCHANGED <<input, pos, tokenized, fed, lookahead, parsed, rng,
                   evaluated, output, pc>>
    /\ UNCHANGED <<overflow_checks, has_passed_eof, yielded>>

\* exp_builder.reduce() returning false, the operand lists behind their
\* handles: the while loop ends
ReduceRcEnd ==
    /\ pc = "reduce"
    /\ LET r == RcReduce(tokens, lookahead, arguments) IN
       /\ ~r.fired
       /\ tokens' = r.tokens
       /\ arguments' = r.arguments
    /\ pc' = IF fed < Len(tokenized) THEN "push" ELSE "build"
    /\ UNCHANGED <<input, pos, tokenized, fed, lookahead, parsed, rng,
                   evaluated, output>>
    /\ UNCHANGED <<overflow_checks, has_passed_eof, yielded>>

\* the steps of the builder in parse(), the operand lists behind their
\* handles
NextRc ==
    \/ Push
    \/ ReduceRc
    \/ ReduceRcEnd
    \/ Build

RcSpec == InitBuilder /\ [][NextRc]_vars

(***************************************************************************)
(* The evaluator on its own: a tree built directly, as the tests of        *)
(* eval.rs build it, and a randomness source that yields a given sequence. *)
(***************************************************************************)
InitEval ==
    /\ input = <<>>
    /\ pos = 0
    /\ tokenized = <<>>
    /\ fed = 0
    /\ lookahead = NoToken
    /\ tokens = <<>>
    /\ parsed \in {Ok(e) : e \in EvalExps}
    /\ rng \in {Source(o) : o \in RngSeqs}
    /\ evaluated = NoValue
    /\ output = NoOutput
    /\ pc = "parsed"
    /\ overflow_checks \in BOOLEAN
    /\ has_passed_eof = FALSE
    /\ yielded = <<>>
    /\ arguments = <<>>

\* the tree is evaluated once more against the same source, as a caller
\* that holds the tree and a source with outputs left may do; the Value of
\* the call before is dropped
EvaluateAgain ==
    /\ pc = "evaluated"
    /\ parsed.ok
    /\ rng.taken < Len(rng.outputs)
    /\ LET r == Evaluate(parsed.exp, rng) IN
       IF overflow_checks /\ EvaluateOverflows(r.value)
       THEN /\ pc' = "panicked"
            /\ UNCHANGED <<evaluated, rng>>
       ELSE /\ evaluated' = r.value
            /\ rng' = r.rng
            /\ pc' = "evaluated"
    /\ parsed' = Ok(Borrowed(parsed.exp))
    /\ UNCHANGED <<input, pos, tokenized, fed, lookahead, tokens, output>>
    /\ UNCHANGED <<overflow_checks, has_passed_eof, yielded, arguments>>

NextEval ==
    \/ EvaluateParsed
    \/ PrintValue

EvalSpec == InitEval /\ [][NextEval]_vars

\* the evaluator with a caller that evaluates its tree time after time
NextRepeat ==
    \/ EvaluateParsed
    \/ EvaluateAgain
    \/ PrintValue

RepeatSpec == InitEval /\ [][NextRepeat]_vars

(***************************************************************************)
(* The streaming lexer on its own: a Tokenizer over a text, and a consumer *)
(* that calls next() time after time, up to MaxIdle times after the stream *)
(* has ended.                                                              *)
(***************************************************************************)
LexAlphabet == {"0", "2", "-", "+", "(", " ", "$", "d", "k", "h", "l"}

\* '3 - 2', '3-2', '3 -2', '3d6k2', '2d6kl1', '2 * (3)', '2 d 20 k 1'
LexExamples ==
    {<<"3", " ", "-", " ", "2">>,
     <<"3", "-", "2">>,
     <<"3", " ", "-", "2">>,
     <<"3", "d", "6", "k", "2">>,
     <<"2", "d", "6", "k", "l", "1">>,
     <<"2", " ", "*", " ", "(", "3", ")">>,
     <<"2", " ", "d", " ", "2", "0", " ", "k", " ", "1">>}

LexInputs == UNION {[1..n -> LexAlphabet] : n \in 0..MaxLen} \cup LexExamples

\* Tokenizer::new(input)
InitLex ==
    /\ input \in LexInputs
    /\ pos = 0
    /\ tokenized = <<>>
    /\ fed = 0
    /\ lookahead = NoToken
    /\ tokens = <<>>
    /\ parsed = NoResult
    /\ rng = Source(<<>>)
    /\ evaluated = NoValue
    /\ output = NoOutput
    /\ pc = "stream"
    /\ overflow_checks \in BOOLEAN
    /\ has_passed_eof = FALSE
    /\ yielded = <<>>
    /\ arguments = <<>>

\* the requests that were answered None
Idle(items) == {i \in 1..Len(items) : items[i] = NoItem}

\* the consumer calls Tokenizer::next: the item, or the panic of a build
\* that checks overflow when the number read leaves the i32 range
TokenizerRequest ==
    /\ pc = "stream"
    /\ Cardinality(Idle(yielded)) < MaxIdle
    /\ LET r == TokenizerNext(input, pos, has_passed_eof) IN
       IF overflow_checks /\ TokenizerNextOverflows(input, pos)
       THEN /\ pc' = "panicked"
            /\ UNCHANGED <<yielded, pos, has_passed_eof>>
       ELSE /\ yielded' = Append(yielded, r.item)
            /\ pos' = r.pos
            /\ has_passed_eof' = r.has_passed_eof
            /\ UNCHANGED pc
    /\ UNCHANGED <<input, tokenized, fed, lookahead, tokens, parsed, rng,
                   evaluated, output, overflow_checks, arguments>>

NextLex == TokenizerRequest

LexSpec == InitLex /\ [][NextLex]_vars

(***************************************************************************)
(* Literals at and beyond the ends of the i32 range, and short ones, each  *)
(* handed to parse() and the rest of the program, or to a Tokenizer.       *)
(***************************************************************************)
\* 2147483647, 2147483648, -2147483647, -2147483648, -2147483649,
\* 4294967296, 4294967298, 9999999999, 10000000000, 00000000001
WideLiterals ==
    {<<"2", "1", "4", "7", "4", "8", "3", "6", "4", "7">>,
     <<"2", "1", "4", "7", "4", "8", "3", "6", "4", "8">>,
     <<"-", "2", "1", "4", "7", "4", "8", "3", "6", "4", "7">>,
     <<"-", "2", "1", "4", "7", "4", "8", "3", "6", "4", "8">>,
     <<"-", "2", "1", "4", "7", "4", "8", "3", "6", "4", "9">>,
     <<"4", "2", "9", "4", "9", "6", "7", "2", "9", "6">>,
     <<"4", "2", "9", "4", "9", "6", "7", "2", "9", "8">>,
     <<"9", "9", "9", "9", "9", "9", "9", "9", "9", "9">>,
     <<"1", "0", "0", "0", "0", "0", "0", "0", "0", "0", "0">>,
     <<"0", "0", "0", "0", "0", "0", "0", "0", "0", "0", "1">>}

ShortLiterals ==
    {sign \o digits : sign \in {<<>>, <<"-">>},
                      digits \in {<<"0">>, <<"7">>, <<"4", "2">>}}

InitLiteral ==
    /\ input \in WideLiterals \cup ShortLiterals
    /\ pos = 0
    /\ tokenized = <<>>
    /\ fed = 0
    /\ lookahead = NoToken
    /\ tokens = <<>>
    /\ parsed = NoResult
    /\ rng = Source(<<>>)
    /\ evaluated = NoValue
    /\ output = NoOutput
    /\ pc \in {"tokenize", "stream"}
    /\ overflow_checks \in BOOLEAN
    /\ has_passed_eof = FALSE
    /\ yielded = <<>>
    /\ arguments = <<>>

NextLiteral ==
    \/ Next
    \/ NextLex

LiteralSpec == InitLiteral /\ [][NextLiteral]_vars

(***************************************************************************)
(* What the claims are measured against: the textbook grammar              *)
(*     expr ::= term (('+' | '-') term)*     term ::= item ('*' item)*     *)
(*     item ::= Number | '(' expr ')'                                      *)
(* read by recursive descent over a token sequence that ends with          *)
(* EndOfStream, every operator associating to the left, and the value of   *)
(* the tree it yields.                                                     *)
(***************************************************************************)
RefNum(n) == [tag |-> "Num", n |-> n]
RefBin(op, l, r) == [tag |-> "Bin", op |-> op, l |-> l, r |-> r]
RefGroup(e) == [tag |-> "Group", e |-> e]
RefFail == [ok |-> FALSE]
RefOk(tree, next) == [ok |-> TRUE, tree |-> tree, next |-> next]

RECURSIVE RefExpr(_, _)
RECURSIVE RefExprRest(_, _, _)
RECURSIVE RefTerm(_, _)
RECURSIVE RefTermRest(_, _, _)
RECURSIVE RefItem(_, _)
RefItem(toks, i) ==
    IF toks[i].tag = "Number" THEN RefOk(RefNum(toks[i].n), i + 1)
    ELSE IF toks[i] = OpenParen THEN
         LET e == RefExpr(toks, i + 1) IN
         IF e.ok /\ toks[e.next] = CloseParen
         THEN RefOk(RefGroup(e.tree), e.next + 1)
         ELSE RefFail
    ELSE RefFail
RefTermRest(toks, left, i) ==
    IF toks[i] = Times THEN
         LET r == RefItem(toks, i + 1) IN
         IF r.ok THEN RefTermRest(toks, RefBin("Mul", left, r.tree), r.next)
         ELSE RefFail
    ELSE RefOk(left, i)
RefTerm(toks, i) ==
    LET f == RefItem(toks, i) IN
    IF f.ok THEN RefTermRest(toks, f.tree, f.next) ELSE RefFail
RefExprRest(toks, left, i) ==
    IF toks[i] = Plus \/ toks[i] = Minus THEN
         LET r == RefTerm(toks, i + 1) IN
         IF r.ok
         THEN RefExprRest(toks,
                          RefBin(IF toks[i] = Plus THEN "Add" ELSE "Sub",
                                 left, r.tree),
                          r.next)
         ELSE RefFail
    ELSE RefOk(left, i)
RefExpr(toks, i) ==
    LET t == RefTerm(toks, i) IN
    IF t.ok THEN RefExprRest(toks, t.tree, t.next) ELSE RefFail

\* the token sequence is an expression of the grammar, then EndOfStream
WellFormed(toks) ==
    /\ Len(toks) > 1
    /\ toks[Len(toks)] = EndOfStream
    /\ LET e == RefExpr(toks, 1) IN e.ok /\ e.next = Len(toks)

RefTree(toks) == RefExpr(toks, 1).tree

RECURSIVE RefValue(_)
RefValue(t) ==
    IF t.tag = "Num" THEN t.n
    ELSE IF t.tag = "Group" THEN RefValue(t.e)
    ELSE IF t.op = "Add" THEN RefValue(t.l) + RefValue(t.r)
    ELSE IF t.op = "Sub" THEN RefValue(t.l) - RefValue(t.r)
    ELSE RefValue(t.l) * RefValue(t.r)

ParenFree(toks) ==
    \A i \in 1..Len(toks) : toks[i] # OpenParen /\ toks[i] # CloseParen

HasGroup(toks) == \E i \in 1..Len(toks) : toks[i] = OpenParen

\* parse() has returned
Returned == pc \in {"parsed", "evaluated", "printed"}

\* the program has run to its end: a parse error, or the printed value
Finished == pc = "printed" \/ (pc = "parsed" /\ ~parsed.ok)

\* the program ended by printing v
EvaluatesTo(v) == parsed.ok /\ output = Output(v)

(***************************************************************************)
(* C1.  For every well-formed parenthesis-free expression over integer     *)
(* literals joined by +, - and *, evaluating parse(text) gives the         *)
(* standard arithmetic value: * binds tighter than + and -, which          *)
(* associate left to right.                                                *)
(***************************************************************************)
C1_Original ==
    (Finished /\ WellFormed(tokenized) /\ ParenFree(tokenized))
        => EvaluatesTo(RefValue(RefTree(tokenized)))

(***************************************************************************)
(* The first innermost group of a token sequence, and the sequence with    *)
(* that group replaced by the Number of the value the program gives the    *)
(* group's own text.                                                       *)
(***************************************************************************)
FirstClose(toks) ==
    CHOOSE j \in 1..Len(toks) :
        toks[j] = CloseParen /\ \A k \in 1..(j - 1) : toks[k] # CloseParen

MatchingOpen(toks, j) ==
    CHOOSE i \in 1..(j - 1) :
        toks[i] = OpenParen /\ \A k \in (i + 1)..(j - 1) : toks[k] # OpenParen

GroupTokens(toks) ==
    LET j == FirstClose(toks)
    IN  Append(SubSeq(toks, MatchingOpen(toks, j) + 1, j - 1), EndOfStream)

GroupAsOperand(toks, v) ==
    LET j == FirstClose(toks)
    IN  SubSeq(toks, 1, MatchingOpen(toks, j) - 1) \o <<Number(v)>>
            \o SubSeq(toks, j + 1, Len(toks))

(***************************************************************************)
(* C2.  Parentheses override precedence: for every well-formed expression  *)
(* that contains a parenthesised group, evaluating parse(text) gives the   *)
(* value obtained by computing the group first and using it as a single    *)
(* operand of its neighbours: the value the program gives the text in      *)
(* which the group is replaced by the literal of the group's value.        *)
(***************************************************************************)
C2_Original ==
    (Finished /\ WellFormed(tokenized) /\ HasGroup(tokenized))
        => LET group == RunTokens(GroupTokens(tokenized))
           IN  /\ group.set
               /\ parsed.ok
               /\ output = RunTokens(GroupAsOperand(tokenized, group.n))

(***************************************************************************)
(* Chains of additions.                                                    *)
(***************************************************************************)
PlusOnly(toks) ==
    \A i \in 1..Len(toks) :
        toks[i].tag \in {"Number", "Plus", "OpenParen", "CloseParen",
                         "EndOfStream"}

\* the constants of the Number tokens, in source order
Literals(toks) ==
    LET numbers == SelectSeq(toks, LAMBDA t : t.tag = "Number")
    IN  [i \in 1..Len(numbers) |-> Const(numbers[i].n)]

RECURSIVE ConstSum(_)
ConstSum(consts) ==
    IF consts = <<>> THEN 0 ELSE Head(consts).n + ConstSum(Tail(consts))

\* the operand, its redundant parentheses removed, holds two literals or more
RECURSIVE RefMulti(_)
RefMulti(t) ==
    IF t.tag = "Group" THEN RefMulti(t.e) ELSE t.tag = "Bin"

\* no operator has two literals or more on both of its sides
RECURSIVE OneSided(_)
OneSided(t) ==
    IF t.tag = "Num" THEN TRUE
    ELSE IF t.tag = "Group" THEN OneSided(t.e)
    ELSE OneSided(t.l) /\ OneSided(t.r) /\ ~(RefMulti(t.l) /\ RefMulti(t.r))

PlusChain(toks) ==
    WellFormed(toks) /\ PlusOnly(toks) /\ Len(Literals(toks)) >= 2

FlatSum(toks) ==
    /\ parsed = Ok(Add(Literals(toks)))
    /\ EvaluatesTo(ConstSum(Literals(toks)))

AllDigits(chars) == \A i \in 1..Len(chars) : IsDigit(chars[i])

IsLiteralText(chars) ==
    \/ Len(chars) >= 1 /\ AllDigits(chars)
    \/ Len(chars) >= 2 /\ chars[1] = "-" /\ AllDigits(Tail(chars))

\* the decimal value of a digit string, most significant digit first
RECURSIVE Decimal(_, _)
Decimal(digits, acc) ==
    IF digits = <<>> THEN acc
    ELSE Decimal(Tail(digits), 10 * acc + ToDigit(Head(digits)))

LiteralValue(chars) ==
    IF chars[1] = "-" THEN 0 - Decimal(Tail(chars), 0) ELSE Decimal(chars, 0)

\* C4: a literal text parses to the constant of its decimal value
C4_Literal ==
    (Returned /\ IsLiteralText(input))
        => parsed = Ok(Const(LiteralValue(input)))

\* parse("-12") has returned
C4_Witness ==
    /\ Returned
    /\ input = <<"-", "1", "2">>
    /\ parsed = Ok(Const(-12))
(***************************************************************************)
(* C5.  parse returns an expression only if, after every token including   *)
(* EndOfStream has been fed to the builder and reduced to fixpoint, the    *)
(* stack holds exactly one Expression token, and then it returns that      *)
(* token's expression; in every other case it returns a parse error and    *)
(* no expression.                                                          *)
(***************************************************************************)
C5_SingleExpression ==
    /\ [](pc = "build" =>
            /\ fed = Len(tokenized)
            /\ lookahead = EndOfStream
            /\ Reducible(tokens, lookahead) = {})
    /\ []((Returned /\ parsed.ok) =>
            /\ pos = Len(input)
            /\ fed = Len(tokenized)
            /\ tokenized[fed] = EndOfStream)
    /\ [][pc = "build" =>
            IF Len(tokens) = 1 /\ IsExpression(tokens[1])
            THEN parsed' = Ok(tokens[1].exp)
            ELSE /\ ~parsed'.ok
                 /\ parsed'.err \in {CouldNotBeParsed, FinalItemNotToken}]_vars

\* parse("2 +") has returned its error: a number and an operator were left
C5_Witness ==
    /\ pc = "parsed"
    /\ input = <<"2", " ", "+">>
    /\ tokens = <<Expression(Const(2)), Plus>>
    /\ parsed = Err(CouldNotBeParsed)

(***************************************************************************)
(* C6.  Any input that contains a character outside the alphabet of the    *)
(* lexer parse uses makes parse fail with the lexical error that names the *)
(* first such character; the error raised when the input ends before a     *)
(* token is completed is another one, raised only for inputs without such  *)
(* a character; no expression is returned in either case.                  *)
(***************************************************************************)
Recognised(c) ==
    IsDigit(c) \/ IsWhitespace(c) \/ c \in {"(", ")", "+", "-", "*"}

HasUnrecognised(chars) == \E i \in 1..Len(chars) : ~Recognised(chars[i])

FirstUnrecognised(chars) ==
    chars[CHOOSE i \in 1..Len(chars) :
              /\ ~Recognised(chars[i])
              /\ \A k \in 1..(i - 1) : Recognised(chars[k])]

\* parse returned before the builder was given a token
LexFailed == Returned /\ fed = 0

\* C6: the lexical error names the first unrecognised character; the
\* input-ended error is raised only when there is none
C6_LexError ==
    Returned =>
        /\ HasUnrecognised(input) =>
               /\ LexFailed
               /\ parsed = Err(UnexpectedSymbol(FirstUnrecognised(input)))
        /\ (LexFailed /\ ~HasUnrecognised(input)) =>
               parsed = Err(StreamCompleted)
        /\ LexFailed => (~parsed.ok /\ evaluated = NoValue)

\* parse("2 $ 3") has returned the error that names '$'
C6_Witness ==
    /\ pc = "parsed"
    /\ input = <<"2", " ", "$", " ", "3">>
    /\ parsed = Err(UnexpectedSymbol("$"))

(***************************************************************************)
(* C7.  Whitespace is skipped: a blank added before the first token,       *)
(* between two tokens or after the last token of an input changes neither  *)
(* the token sequence nor the result of parse.                             *)
(***************************************************************************)
InsertBlank(chars, p) ==
    SubSeq(chars, 1, p) \o <<" ">> \o SubSeq(chars, p + 1, Len(chars))

\* the positions at which Token::next leaves `chars` after a token
RECURSIVE TokenEnds(_, _)
TokenEnds(chars, p) ==
    IF p >= Len(chars) THEN {}
    ELSE LET r == TokenNext(chars, p)
         IN  IF r.ok THEN {r.pos} \cup TokenEnds(chars, r.pos) ELSE {}

\* C7: a blank added at a token boundary changes neither tokens nor result
C7_Original ==
    (Returned /\ fed > 1) =>
        \A p \in {0} \cup TokenEnds(input, 0) :
            /\ TokenTokenize(InsertBlank(input, p))
                   = [ok |-> TRUE, tokens |-> tokenized]
            /\ Parse(InsertBlank(input, p)) = parsed

(***************************************************************************)
(* C8.  parse accepts dice notation: 'd<N>' parses to                      *)
(* Roll(dice = Const(1), sides = Const(N), keep = All), and '<M>d<N>' to   *)
(* the same Roll with dice = Const(M).                                     *)
(***************************************************************************)
\* the text is digits, possibly none, then 'd' at index k, then digits
DieAt(chars, k) ==
    /\ chars[k] = "d"
    /\ k < Len(chars)
    /\ AllDigits(SubSeq(chars, 1, k - 1))
    /\ AllDigits(SubSeq(chars, k + 1, Len(chars)))

\* C8: 'd<N>' and '<M>d<N>' parse to a Roll that keeps all
C8_Original ==
    Returned =>
        \A k \in 1..Len(input) :
            DieAt(input, k) =>
                parsed = Ok(Roll(IF k = 1 THEN Const(1)
                                 ELSE Const(Decimal(SubSeq(input, 1, k - 1), 0)),
                                 Const(Decimal(SubSeq(input, k + 1, Len(input)), 0)),
                                 KeepAll))
(***************************************************************************)
(* Rolls, as the claims about the evaluator read them.                     *)
(***************************************************************************)
Evaluation == pc \in {"evaluated", "printed"}

\* the i-th output of the source, 0 once the sequence has run out
OutputAt(i) == IF i <= Len(rng.outputs) THEN rng.outputs[i] ELSE 0

\* the face a die of s > 0 sides shows on the output r
Face(r, s) == IF r % s = 0 THEN s ELSE r % s

Clamp(k, lo, hi) == IF k < lo THEN lo ELSE IF k > hi THEN hi ELSE k

Ascending(seq) == \A i \in 1..(Len(seq) - 1) : seq[i] <= seq[i + 1]

Count(seq, v) == Cardinality({i \in 1..Len(seq) : seq[i] = v})

SameBag(a, b) ==
    /\ Len(a) = Len(b)
    /\ \A i \in 1..Len(a) : Count(a, a[i]) = Count(b, a[i])

RECURSIVE Total(_)
Total(seq) == IF seq = <<>> THEN 0 ELSE seq[1] + Total(Tail(seq))

(***************************************************************************)
(* C9.  Evaluating Roll(dice = d, sides = s, keep = Highest(k)) with       *)
(* constant d >= 0, s > 0 and any integer k: the 'highest' partition is    *)
(* exactly the n = clamp(k, 0, d) largest of the drawn values, taken from  *)
(* the ascending-sorted draws, the 'lowest' partition is the remaining     *)
(* d - n smallest, and the roll's numeric value is the sum of 'highest'.   *)
(***************************************************************************)
C9_KeepHighest ==
    (/\ Evaluation
     /\ parsed.exp.tag = "Roll"
     /\ parsed.exp.dice.tag = "Const" /\ parsed.exp.dice.n >= 0
     /\ parsed.exp.sides.tag = "Const" /\ parsed.exp.sides.n > 0
     /\ parsed.exp.keep.rule = "Highest"
     /\ parsed.exp.keep.count.tag = "Const")
    => LET d == parsed.exp.dice.n
           n == Clamp(parsed.exp.keep.count.n, 0, d)
           draws == [i \in 1..d |-> Face(OutputAt(i), parsed.exp.sides.n)]
           lowest == evaluated.kept.lowest
           highest == evaluated.kept.highest
       IN  /\ Len(highest) = n
           /\ Len(lowest) = d - n
           /\ Ascending(lowest \o highest)
           /\ SameBag(lowest \o highest, draws)
           /\ pc = "printed" => output = Output(Total(highest))

\* 3d6k2 on the outputs 2, 3, 4: highest [3, 4], value 7
C9_Witness ==
    /\ pc = "printed"
    /\ parsed.exp = Roll(Const(3), Const(6), KeepHighest(Const(2)))
    /\ rng.outputs = <<2, 3, 4>>
    /\ evaluated.kept.lowest = <<2>>
    /\ evaluated.kept.highest = <<3, 4>>
    /\ output = Output(7)

(***************************************************************************)
(* C10.  For every dice count n >= 0 and every keep rule, evaluating a     *)
(* roll whose sides expression evaluates to 0 yields exactly n rolled      *)
(* values that are all 0 and a numeric value of 0.                         *)
(***************************************************************************)
C10_ZeroSides ==
    (/\ Evaluation
     /\ evaluated.tag = "Rolled"
     /\ ValueOf(evaluated.sides) = 0
     /\ ValueOf(evaluated.dice) >= 0)
    => LET all == evaluated.kept.lowest \o evaluated.kept.highest
       IN  /\ Len(all) = ValueOf(evaluated.dice)
           /\ \A i \in 1..Len(all) : all[i] = 0
           /\ ValueOf(evaluated) = 0
           /\ pc = "printed" => output = Output(0)

\* two dice of 1 - 1 sides, the lowest one kept
C10_Witness ==
    /\ pc = "printed"
    /\ parsed.exp.tag = "Roll"
    /\ parsed.exp.sides = Sub(<<Const(1), Const(1)>>)
    /\ parsed.exp.keep.rule = "Lowest"
    /\ evaluated.kept.lowest = <<0>>
    /\ evaluated.kept.highest = <<0>>
    /\ output = Output(0)

(***************************************************************************)
(* Every Rolled value of a Value tree, the nested ones included.           *)
(***************************************************************************)
RECURSIVE Rolls(_)
Rolls(v) ==
    IF v.tag = "Const" THEN {}
    ELSE IF v.tag = "Op" THEN UNION {Rolls(v.values[i]) : i \in 1..Len(v.values)}
    ELSE {v} \cup Rolls(v.sides) \cup Rolls(v.dice) \cup Rolls(v.kept.retained)

\* how many values the partition the rule designates as kept holds
KeptCount(kept) ==
    IF kept.keep.rule = "Lowest" THEN Len(kept.lowest) ELSE Len(kept.highest)

(***************************************************************************)
(* C11.  Clamp invariant: for every evaluated dice count d and every       *)
(* evaluated keep count k, negative or greater than d included, a roll's   *)
(* result has lowest.len + highest.len = max(d, 0), and the partition      *)
(* designated as kept holds clamp(k, 0, max(d, 0)) values, hence between 0 *)
(* and max(d, 0); a roll that keeps all holds them all.                    *)
(***************************************************************************)
C11_Clamp ==
    Evaluation =>
        \A r \in Rolls(evaluated) :
            LET d == IF ValueOf(r.dice) > 0 THEN ValueOf(r.dice) ELSE 0
            IN  /\ Len(r.kept.lowest) + Len(r.kept.highest) = d
                /\ KeptCount(r.kept) >= 0
                /\ KeptCount(r.kept) <= d
                /\ KeptCount(r.kept) =
                       IF r.kept.keep.rule = "All" THEN d
                       ELSE Clamp(ValueOf(r.kept.retained), 0, d)

\* two dice, the lowest MaxConst asked for: both are kept
C11_Witness ==
    /\ pc = "printed"
    /\ parsed.exp = Roll(Const(2), Const(2), KeepLowest(Const(MaxConst)))
    /\ Len(evaluated.kept.lowest) = 2
    /\ evaluated.kept.highest = <<>>

(***************************************************************************)
(* C12.  A roll whose dice expression evaluates to a negative number rolls *)
(* zero dice: both partitions are empty, no output of the randomness       *)
(* source is drawn for the roll's own dice (the outputs taken are those    *)
(* its sides, dice and keep count take), and its numeric value is 0; it is *)
(* not an error.                                                           *)
(***************************************************************************)
\* the outputs the sides, the dice and the keep count of a roll take
PartsTaken(roll, outputs) ==
    LET sides == Evaluate(roll.sides, Source(outputs))
        dice == Evaluate(roll.dice, sides.rng)
    IN  IF roll.keep.rule = "All" THEN dice.rng.taken
        ELSE Evaluate(roll.keep.count, dice.rng).rng.taken

C12_NegativeDice ==
    Evaluation =>
        /\ \A r \in Rolls(evaluated) :
               ValueOf(r.dice) < 0 =>
                   /\ r.kept.lowest = <<>>
                   /\ r.kept.highest = <<>>
                   /\ ValueOf(r) = 0
                   /\ ~ValueOverflows(r) \/ ValueOverflows(r.dice)
        /\ (evaluated.tag = "Rolled" /\ ValueOf(evaluated.dice) < 0) =>
               /\ rng.taken = PartsTaken(parsed.exp, rng.outputs)
               /\ pc = "printed" => output = Output(0)

\* -1 dice of as many sides as a die shows: one output taken, for the sides
C12_Witness ==
    /\ pc = "printed"
    /\ parsed.exp = Roll(Const(-1), Roll(Const(1), Const(MaxConst), KeepAll),
                         KeepAll)
    /\ evaluated.kept.lowest = <<>>
    /\ evaluated.kept.highest = <<>>
    /\ rng.taken = 1
    /\ output = Output(0)

(***************************************************************************)
(* C13.  For a roll whose sides evaluate to s # 0, each die's face is      *)
(* computed from one randomness output r as r mod |s|, the residue 0       *)
(* remapped to |s|; so every rolled value v has 1 <= v <= |s| (a source    *)
(* yielding 3 for 1d6 gives kept [3], value 3), and the sign of s does not *)
(* change the faces.  Read for the sides whose value is computed without   *)
(* leaving the i32 range.                                                  *)
(***************************************************************************)
\* v <= |s| for v >= 1, without the number |s|
AtMostSize(v, s) == IF s > 0 THEN v <= s ELSE 0 - v >= s

C13_Original ==
    Evaluation =>
        /\ \A r \in Rolls(evaluated) :
               (ValueOf(r.sides) # 0 /\ ~ValueOverflows(r.sides)) =>
                   \A i \in 1..Len(r.kept.lowest \o r.kept.highest) :
                       LET v == (r.kept.lowest \o r.kept.highest)[i]
                       IN  v >= 1 /\ AtMostSize(v, ValueOf(r.sides))
        /\ (/\ parsed.exp.tag = "Roll"
            /\ parsed.exp.sides.tag = "Const" /\ parsed.exp.sides.n # 0
            /\ parsed.exp.dice.tag = "Const" /\ parsed.exp.dice.n >= 0) =>
               LET s == parsed.exp.sides.n
                   size == IF s < 0 THEN 0 - s ELSE s
                   faces == [i \in 1..parsed.exp.dice.n |->
                                Face(OutputAt(i), size)]
               IN  /\ SameBag(evaluated.kept.lowest \o evaluated.kept.highest,
                              faces)
                   /\ rng.taken >= parsed.exp.dice.n
        /\ (/\ parsed.exp = Roll(Const(1), Const(6), KeepAll)
            /\ rng.outputs = <<3>>) =>
               /\ evaluated.kept.highest = <<3>>
               /\ ValueOf(evaluated) = 3

(***************************************************************************)
(* C14.  evaluate is deterministic in the randomness sequence: evaluating  *)
(* the same tree against another source that yields the same sequence of   *)
(* outputs (one that has given an output before, one whose sequence is     *)
(* written out with the zeros it ends in) gives an equal Value tree and    *)
(* takes the same number of outputs.                                       *)
(***************************************************************************)
Remaining(r) == SubSeq(r.outputs, r.taken + 1, Len(r.outputs))

Twins(r) ==
    {[outputs |-> before \o Remaining(r) \o zeros, taken |-> Len(before)] :
        before \in {<<>>, <<MaxRng>>}, zeros \in {<<>>, <<0>>}}

RECURSIVE RollFree(_)
RollFree(e) ==
    IF e.tag = "Const" THEN TRUE
    ELSE IF e.tag = "Roll" THEN FALSE
    ELSE \A i \in 1..Len(e.args) : RollFree(e.args[i])

C15_Original ==
    (parsed.ok /\ RollFree(parsed.exp)) =>
        /\ pc # "panicked"
        /\ pc = "printed" => output.set

(***************************************************************************)
(* C16.  numeric_value of an Op value with operand values v0..vk, k >= 0,  *)
(* is v0 + ... + vk for Add, v0 * ... * vk for Mul and v0 - v1 - ... - vk  *)
(* for Sub: the first operand is the base, and a single-operand Sub yields *)
(* v0.  Checked where no step leaves the i32 range.                        *)
(***************************************************************************)
\* every Op value of a Value tree
RECURSIVE Ops(_)
Ops(v) ==
    IF v.tag = "Const" THEN {}
    ELSE IF v.tag = "Op"
         THEN {v} \cup UNION {Ops(v.values[i]) : i \in 1..Len(v.values)}
    ELSE Ops(v.sides) \cup Ops(v.dice) \cup Ops(v.kept.retained)

RECURSIVE MathSum(_)
MathSum(ns) == IF ns = <<>> THEN 0 ELSE ns[1] + MathSum(Tail(ns))

RECURSIVE MathProduct(_)
MathProduct(ns) == IF ns = <<>> THEN 1 ELSE ns[1] * MathProduct(Tail(ns))

C16_OpValue ==
    Evaluation =>
        /\ \A v \in Ops(evaluated) :
               ~ValueOverflows(v) =>
                   LET ns == [i \in 1..Len(v.values) |-> ValueOf(v.values[i])]
                   IN  /\ Len(ns) >= 1
                       /\ v.op = "Add" => ValueOf(v) = MathSum(ns)
                       /\ v.op = "Mul" => ValueOf(v) = MathProduct(ns)
                       /\ v.op = "Sub" =>
                              ValueOf(v) = ns[1] - MathSum(Tail(ns))
                       /\ (v.op = "Sub" /\ Len(ns) = 1) => ValueOf(v) = ns[1]
        /\ (pc = "printed" /\ evaluated.tag = "Op") =>
               output = Output(ValueOf(evaluated))

\* 2 - -1 - MaxConst has been evaluated and its value taken
C16_Witness ==
    /\ pc = "printed"
    /\ parsed.exp = Sub(<<Const(2), Const(-1), Const(MaxConst)>>)
    /\ output = Output(3 - MaxConst)

(***************************************************************************)
(* The token streams, as the claims about the lexers read them.            *)
(***************************************************************************)
\* the requests that were answered EndOfStream
EndOfStreams(items) ==
    {i \in 1..Len(items) : items[i] = SomeOk(EndOfStream)}

\* the last answer of the stream
LastYielded(items) == items[Len(items)]

\* the characters consumed once the blanks that follow the p-th are skipped
RECURSIVE SkipBlanks(_, _)
SkipBlanks(chars, p) ==
    IF p < Len(chars) /\ chars[p + 1] = " " THEN SkipBlanks(chars, p + 1)
    ELSE p

\* the next request is answered from the character c
NextIs(c) ==
    /\ pc = "stream"
    /\ SkipBlanks(input, pos) < Len(input)
    /\ input[SkipBlanks(input, pos) + 1] = c

(***************************************************************************)
(* C17.  For every input string the token stream yields EndOfStream        *)
(* exactly once, only after all input characters have been consumed, and   *)
(* every later request yields 'no more tokens'; also when earlier requests *)
(* returned lexical errors.  The vector Token::tokenize returns holds      *)
(* EndOfStream once, as its last token.                                    *)
(***************************************************************************)
C17_EndOfStreamOnce ==
    /\ Cardinality(EndOfStreams(yielded)) <= 1
    /\ has_passed_eof <=> EndOfStreams(yielded) # {}
    /\ \A i \in EndOfStreams(yielded) :
           /\ pos = Len(input)
           /\ \A j \in 1..(i - 1) : yielded[j].some
           /\ \A j \in (i + 1)..Len(yielded) : yielded[j] = NoItem
    /\ Idle(yielded) # {} => Cardinality(EndOfStreams(yielded)) = 1
    /\ (pc = "stream" /\ pos = Len(input) /\ yielded # <<>>
          /\ LastYielded(yielded).some /\ ~has_passed_eof) =>
           TokenizerNext(input, pos, has_passed_eof).item = SomeOk(EndOfStream)
    /\ LET t == TokenTokenize(input) IN
       (pc = "stream" /\ t.ok) =>
           /\ t.tokens[Len(t.tokens)] = EndOfStream
           /\ \A i \in 1..(Len(t.tokens) - 1) : t.tokens[i] # EndOfStream

\* '2$': a number, the error that names '$', EndOfStream, then no more tokens
C17_Witness ==
    /\ input = <<"2", "$">>
    /\ yielded = <<SomeOk(Number(2)), SomeErr(UnexpectedSymbol("$")),
                   SomeOk(EndOfStream), NoItem, NoItem>>

(***************************************************************************)
(* C18.  Both lexers fold a '-' into a negative Number exactly when the    *)
(* very next character is a digit, whichever token precedes it, and emit   *)
(* the Minus operator otherwise; so '3 - 2' lexes as Number(3), Minus,     *)
(* Number(2), and '3-2' and '3 -2' as Number(3), Number(-2).               *)
(***************************************************************************)
\* the tokens a stream has yielded, when every answer was a token
YieldedTokens(items) == [i \in 1..Len(items) |-> items[i].tok]

C18_MinusFolding ==
    /\ [][NextIs("-") =>
            LET q == SkipBlanks(input, pos)
                end == DigitRunEnd(input, q + 1)
                n == 0 - Decimal(SubSeq(input, q + 2, end), 0)
            IN  IF q + 1 < Len(input) /\ IsDigit(input[q + 2])
                THEN /\ LastYielded(yielded') = SomeOk(Number(n))
                     /\ pos' = end
                     /\ TokenNext(input, pos) = LexOk(Number(n), end)
                ELSE /\ LastYielded(yielded') = SomeOk(Operation("Sub"))
                     /\ pos' = q + 1
                     /\ TokenNext(input, pos) = LexOk(Minus, q + 1)]_vars
    /\ []((has_passed_eof /\ input = <<"3", " ", "-", " ", "2">>) =>
            /\ YieldedTokens(SubSeq(yielded, 1, 4))
                   = <<Number(3), Operation("Sub"), Number(2), EndOfStream>>
            /\ TokenTokenize(input).tokens
                   = <<Number(3), Minus, Number(2), EndOfStream>>)
    /\ []((has_passed_eof /\ input \in {<<"3", "-", "2">>,
                                         <<"3", " ", "-", "2">>}) =>
            /\ YieldedTokens(SubSeq(yielded, 1, 3))
                   = <<Number(3), Number(-2), EndOfStream>>
            /\ TokenTokenize(input).tokens
                   = <<Number(3), Number(-2), EndOfStream>>)

\* '3 -2' has been lexed to its end
C18_Witness ==
    /\ input = <<"3", " ", "-", "2">>
    /\ yielded = <<SomeOk(Number(3)), SomeOk(Number(-2)), SomeOk(EndOfStream)>>

TimesOnly(toks) ==
    \A i \in 1..Len(toks) : toks[i].tag \in {"Number", "Times", "EndOfStream"}

C20_Original ==
    (/\ Returned
     /\ WellFormed(tokenized)
     /\ TimesOnly(tokenized)
     /\ Len(Literals(tokenized)) >= 3)
    => parsed = Ok(Mul(Literals(tokenized)))

(***************************************************************************)
(* C21.  A chain of terms joined only by '-', each term a literal or a     *)
(* product, parses to one Sub node whose operands are the terms in source  *)
(* order and evaluates to the first term minus all the others; and         *)
(* 'a - (b - c)' and 'a - (b + c)' evaluate to a - (b - c) and             *)
(* a - (b + c).                                                            *)
(***************************************************************************)
MinusChain(toks) ==
    /\ \A i \in 1..Len(toks) :
           toks[i].tag \in {"Number", "Minus", "Times", "EndOfStream"}
    /\ \E i \in 1..Len(toks) : toks[i] = Minus

\* the terms of a left-nested chain of subtractions, in source order
RECURSIVE RefTerms(_)
RefTerms(t) ==
    IF t.tag = "Bin" /\ t.op = "Sub" THEN Append(RefTerms(t.l), t.r)
    ELSE <<t>>

\* the value of a tree, evaluated on its own
ExpValue(e) == ValueOf(Evaluate(e, Source(<<>>)).value)

\* a Number, Minus, and a group of two Numbers joined by Minus or Plus
MinusGroup(toks) ==
    /\ Len(toks) = 8
    /\ toks[1].tag = "Number" /\ toks[2] = Minus /\ toks[3] = OpenParen
    /\ toks[4].tag = "Number" /\ toks[5] \in {Minus, Plus}
    /\ toks[6].tag = "Number" /\ toks[7] = CloseParen

C21_Original ==
    /\ (Returned /\ WellFormed(tokenized) /\ MinusChain(tokenized)) =>
           LET terms == RefTerms(RefTree(tokenized)) IN
           /\ parsed.ok
           /\ IsSub(parsed.exp)
           /\ Len(parsed.exp.args) = Len(terms)
           /\ \A i \in 1..Len(terms) :
                  /\ ExpValue(parsed.exp.args[i]) = RefValue(terms[i])
                  /\ terms[i].tag = "Num" =>
                         parsed.exp.args[i] = Const(terms[i].n)
           /\ pc = "printed" => output = Output(RefValue(RefTree(tokenized)))
    /\ (Finished /\ WellFormed(tokenized) /\ MinusGroup(tokenized)) =>
           EvaluatesTo(RefValue(RefTree(tokenized)))

(***************************************************************************)
(* C22.  Lookahead gating: no Add or Sub reduction fires while the held    *)
(* lookahead is Times, be it the creation of a two-operand node or the     *)
(* merge into an existing Add or Sub list.                                 *)
(***************************************************************************)
\* the operator of the three-token arm that the next reduce() takes, NoToken
\* when it takes the literal arm
FiredOperator(stack, la) ==
    LET split == ReduceSplit(stack, la)
    IN  IF Len(stack) - split = 3 THEN stack[split + 2] ELSE NoToken

C22_Original ==
    [][(pc = "reduce" /\ lookahead = Times /\ tokens' # tokens) =>
           FiredOperator(tokens, lookahead) \notin {Plus, Minus}]_vars

(***************************************************************************)
(* How many outputs the evaluation that gave a value took, read off the    *)
(* value: one for every die of a roll whose sides are not 0, and those of  *)
(* the sub-values.                                                         *)
(***************************************************************************)
RECURSIVE Span(_)
RECURSIVE SpanOfAll(_)
SpanOfAll(values) ==
    IF values = <<>> THEN 0 ELSE Span(Head(values)) + SpanOfAll(Tail(values))
Span(v) ==
    IF v.tag = "Const" THEN 0
    ELSE IF v.tag = "Op" THEN SpanOfAll(v.values)
    ELSE Span(v.sides) + Span(v.dice) + Span(v.kept.retained)
         + (IF ValueOf(v.sides) = 0 THEN 0
            ELSE Len(v.kept.lowest) + Len(v.kept.highest))

\* a source that yields the n outputs after the first `before` ones
Window(before, n) == Source([i \in 1..n |-> OutputAt(before + i)])

(***************************************************************************)
(* C23.  Within one roll the randomness source is consumed in a fixed      *)
(* order: the outputs of the sides sub-expression first, then those of the *)
(* dice sub-expression, then one output per die of the roll itself, then   *)
(* those of the keep-count sub-expression.  With the source 2, 3, 4,       *)
(* '(1d6)d6' gives the inner roll 2 and the outer dice 3 and 4.            *)
(***************************************************************************)
C23_RollOrder ==
    (Evaluation /\ evaluated.tag = "Rolled") =>
        LET roll == parsed.exp
            a == Span(evaluated.sides)
            b == Span(evaluated.dice)
            faces == evaluated.kept.lowest \o evaluated.kept.highest
            n == IF ValueOf(evaluated.sides) = 0 THEN 0 ELSE Len(faces)
            c == Span(evaluated.kept.retained)
            size == UnsignedAbs(ValueOf(evaluated.sides))
        IN  /\ evaluated.sides = Evaluate(roll.sides, Window(0, a)).value
            /\ evaluated.dice = Evaluate(roll.dice, Window(a, b)).value
            /\ size > 0 =>
                   SameBag(faces,
                           [i \in 1..n |-> Face(OutputAt(a + b + i), size)])
            /\ roll.keep.rule # "All" =>
                   evaluated.kept.retained
                       = Evaluate(roll.keep.count, Window(a + b + n, c)).value
            /\ rng.taken = a + b + n + c
            /\ (/\ roll = Roll(Roll(Const(1), Const(6), KeepAll), Const(6),
                               KeepAll)
                /\ rng.outputs = <<2, 3, 4>>) =>
                   /\ evaluated.dice.kept.highest = <<2>>
                   /\ evaluated.kept.highest = <<3, 4>>

\* a die's worth of sides, a die's worth of dice, the highest die's worth
\* kept, on the outputs 2, 1, 0 (and 0 from then on): one output each for
\* the sides, the dice, the one die and the keep count
C23_Witness ==
    /\ pc = "printed"
    /\ parsed.exp = Roll(Roll(Const(1), Const(MaxConst), KeepAll),
                         Roll(Const(1), Const(MaxConst), KeepAll),
                         KeepHighest(Roll(Const(1), Const(MaxConst), KeepAll)))
    /\ Len(rng.outputs) >= 3
    /\ SubSeq(rng.outputs, 1, 3) = <<2, 1, 0>>
    /\ evaluated.sides.kept.highest = <<2>>
    /\ evaluated.dice.kept.highest = <<1>>
    /\ evaluated.kept.highest = <<2>>
    /\ evaluated.kept.retained.kept.highest = <<MaxConst>>
    /\ rng.taken = 4

(***************************************************************************)
(* C24.  The operands of an Op node are evaluated left to right in the     *)
(* order of the operand list, each taking all of its outputs before the    *)
(* next takes any, and the Value::Op lists the operand values in the same  *)
(* order under the same operator.                                          *)
(***************************************************************************)
C24_OperandOrder ==
    (Evaluation /\ parsed.exp.tag = "Op") =>
        /\ evaluated.tag = "Op"
        /\ evaluated.op = parsed.exp.op
        /\ Len(evaluated.values) = Len(parsed.exp.args)
        /\ \A i \in 1..Len(parsed.exp.args) :
               LET before == SpanOfAll(SubSeq(evaluated.values, 1, i - 1))
               IN  evaluated.values[i]
                       = Evaluate(parsed.exp.args[i],
                                  Window(before, Span(evaluated.values[i]))).value
        /\ rng.taken = SpanOfAll(evaluated.values)

\* three dice subtracted, on the outputs 1, 2, 0: the faces 1, 2 and MaxConst
\* in the order of the operands
C24_Witness ==
    /\ pc = "printed"
    /\ parsed.exp = Sub(<<Roll(Const(1), Const(MaxConst), KeepAll),
                          Roll(Const(1), Const(MaxConst), KeepAll),
                          Roll(Const(1), Const(MaxConst), KeepAll)>>)
    /\ Len(rng.outputs) >= 3
    /\ SubSeq(rng.outputs, 1, 3) = <<1, 2, 0>>
    /\ evaluated.values[1].kept.highest = <<1>>
    /\ evaluated.values[2].kept.highest = <<2>>
    /\ evaluated.values[3].kept.highest = <<MaxConst>>
    /\ rng.taken = 3
    /\ output = Output((1 - 2) - MaxConst)

(***************************************************************************)
(* C25.  The operand-list merge fires only when the operator being reduced *)
(* is the operator of the adjacent Op node; when the operators differ, as  *)
(* Minus next to an Add node in 'a - (b + c)', the reduction builds the    *)
(* new two-operand node Op(op, [a, b]) and leaves the existing operand     *)
(* list as it is.                                                          *)
(***************************************************************************)
OperatorOf(t) ==
    IF t = Plus THEN "Add" ELSE IF t = Minus THEN "Sub" ELSE "Mul"

HasOperator(e, op) == e.tag = "Op" /\ e.op = op

C25_Original ==
    [][(/\ pc = "reduce"
        /\ tokens' # tokens
        /\ FiredOperator(tokens, lookahead) \in {Plus, Minus, Times}) =>
           LET split == ReduceSplit(tokens, lookahead)
               a == tokens[split + 1].exp
               b == tokens[split + 3].exp
               op == OperatorOf(tokens[split + 2])
               result == tokens'[Len(tokens')].exp
           IN  (~HasOperator(a, op) /\ ~HasOperator(b, op)) =>
                   result = OpExp(op, <<a, b>>)]_vars

Designated(kept) ==
    IF kept.keep.rule = "Lowest" THEN kept.lowest ELSE kept.highest

C27_KeptSum ==
    Evaluation =>
        /\ \A r \in Rolls(evaluated) :
               /\ r.kept.keep.rule \in {"Lowest", "Highest", "All"}
               /\ ValueOf(r) = Total(Designated(r.kept))
        /\ (pc = "printed" /\ evaluated.tag = "Rolled") =>
               output = Output(Total(Designated(evaluated.kept)))

\* two dice of MaxConst sides on the outputs 1, 2, the lowest one kept: the
\* value is 1, the 2 of 'highest' left out
C27_Witness ==
    /\ pc = "printed"
    /\ parsed.exp = Roll(Const(2), Const(MaxConst), KeepLowest(Const(1)))
    /\ evaluated.kept.lowest = <<1>>
    /\ evaluated.kept.highest = <<2>>
    /\ output = Output(1)

C29_Original ==
    /\ [][NextIs("k") =>
           LET q == SkipBlanks(input, pos)
               after == SkipBlanks(input, q + 1)
           IN  (/\ after > q + 1
                /\ after < Len(input)
                /\ (IsDigit(input[after + 1]) \/ input[after + 1] = "(")) =>
                   LastYielded(yielded') = SomeOk(TokenKeepHighest)]_vars
    /\ []((/\ has_passed_eof
           /\ input = <<"2", " ", "d", " ", "2", "0", " ", "k", " ", "1">>) =>
              yielded[4] = SomeOk(TokenKeepHighest))

(***************************************************************************)
(* C30.  For every digit-string literal, with or without a leading '-',    *)
(* parse returns either Const(v) with v exactly the literal's decimal      *)
(* value, or an error: never a constant of another, wrapped-around value,  *)
(* and never an abort on 32-bit overflow, literals of 10 or more digits    *)
(* and -2147483648 included.  The same is asked of the numbers of the      *)
(* streaming lexer.                                                        *)
(***************************************************************************)
RECURSIVE StripZeros(_)
StripZeros(digits) ==
    IF Len(digits) > 1 /\ Head(digits) = "0" THEN StripZeros(Tail(digits))
    ELSE digits

\* digit strings of one length, compared as numbers
RECURSIVE DigitsAtMost(_, _)
DigitsAtMost(a, b) ==
    IF a = <<>> THEN TRUE
    ELSE IF ToDigit(Head(a)) # ToDigit(Head(b))
         THEN ToDigit(Head(a)) < ToDigit(Head(b))
    ELSE DigitsAtMost(Tail(a), Tail(b))

Magnitude(chars) ==
    StripZeros(IF chars[1] = "-" THEN Tail(chars) ELSE chars)

\* the literal's decimal value is an i32: at most 2147483647, or at least
\* -2147483648
InI32(chars) ==
    LET m == Magnitude(chars)
        last == IF chars[1] = "-" THEN "8" ELSE "7"
    IN  \/ Len(m) < 10
        \/ /\ Len(m) = 10
           /\ DigitsAtMost(m, <<"2", "1", "4", "7", "4", "8", "3", "6", "4",
                                last>>)

\* the value below zero of a digit string, most significant digit first
RECURSIVE NegDecimal(_, _)
NegDecimal(digits, acc) ==
    IF digits = <<>> THEN acc
    ELSE NegDecimal(Tail(digits), 10 * acc - ToDigit(Head(digits)))

ExactValue(chars) ==
    IF chars[1] = "-" THEN NegDecimal(Magnitude(chars), 0)
    ELSE Decimal(Magnitude(chars), 0)

C30_Original ==
    IsLiteralText(input) =>
        /\ pc # "panicked"
        /\ (Returned /\ parsed.ok) =>
               /\ InI32(input)
               /\ parsed.exp = Const(ExactValue(input))
        /\ \A i \in 1..Len(yielded) :
               (/\ yielded[i].some
                /\ yielded[i].ok
                /\ yielded[i].tok.tag = "Number") =>
                   /\ InI32(input)
                   /\ yielded[i].tok.n = ExactValue(input)

(***************************************************************************)
(* C31.  Reduce-to-fixpoint terminates: the loop that repeats reduce until *)
(* it reports no match performs finitely many reductions, each of which    *)
(* either replaces the last token, a Number, by an Expression without      *)
(* growing the stack, or replaces the last three tokens by one; once the   *)
(* loop has ended no Number token is on the stack.                         *)
(***************************************************************************)
NoNumber(stack) == \A i \in 1..Len(stack) : stack[i].tag # "Number"

C31_Terminates ==
    /\ [][(pc = "reduce" /\ tokens' # tokens) =>
           LET n == Len(tokens) IN
           \/ /\ Len(tokens') = n
              /\ tokens[n].tag = "Number"
              /\ tokens'[n] = Expression(Const(tokens[n].n))
              /\ SubSeq(tokens', 1, n - 1) = SubSeq(tokens, 1, n - 1)
           \/ /\ n >= 3
              /\ Len(tokens') = n - 2
              /\ IsExpression(tokens'[n - 2])
              /\ SubSeq(tokens', 1, n - 3) = SubSeq(tokens, 1, n - 3)]_vars
    /\ []<>(pc # "reduce")
    /\ [](pc # "reduce" => NoNumber(tokens))

\* '1 + 2 + 3' after the loop that followed its last token: five reductions
\* have left one Expression
C31_Witness ==
    /\ pc = "build"
    /\ input = <<"1", " ", "+", " ", "2", " ", "+", " ", "3">>
    /\ tokens = <<Expression(Add(<<Const(1), Const(2), Const(3)>>))>>

(***************************************************************************)
(* C32.  A reduction attempt that does not fire changes nothing: when      *)
(* reduce reports no match, also when an Add/Sub rule was deferred because *)
(* the lookahead is Times, the stack, the lookahead and every operand list *)
(* are as before the attempt; and when a reduction mutates an operand      *)
(* list, the tokens that referred to the list are drained in the same step *)
(* and only the newly pushed Expression refers to it.                      *)
(***************************************************************************)
\* the tokens of a stack that hold the handle rc
Holders(stack, rc) ==
    {i \in 1..Len(stack) :
        /\ IsExpression(stack[i])
        /\ stack[i].exp.tag = "Op"
        /\ stack[i].exp.rc = rc}

\* the places inside the operand lists that hold the handle rc
Nested(heap, rc) ==
    {p \in UNION {{<<k, i>> : i \in 1..Len(heap[k])} : k \in 1..Len(heap)} :
        /\ heap[p[1]][p[2]].tag = "Op"
        /\ heap[p[1]][p[2]].rc = rc}

\* an expression of the builder read through its handles
RECURSIVE Deref(_, _)
Deref(e, heap) ==
    IF e.tag = "Op"
    THEN OpExp(e.op, [i \in 1..Len(heap[e.rc]) |-> Deref(heap[e.rc][i], heap)])
    ELSE e

\* read through its handles, what the builder returns is what Parse
\* computes from the text
RcAgrees ==
    pc = "parsed" =>
        /\ parsed.ok = Parse(input).ok
        /\ parsed.ok => Deref(parsed.exp, arguments) = Parse(input).exp
        /\ ~parsed.ok => parsed = Parse(input)

\* the handles whose list a step has changed
Mutated == {rc \in 1..Len(arguments) : arguments'[rc] # arguments[rc]}

C32_NoMatchNoChange ==
    [][pc = "reduce" =>
         /\ pc' # "reduce" =>
                /\ tokens' = tokens
                /\ lookahead' = lookahead
                /\ arguments' = arguments
         /\ pc' = "reduce" =>
                \A rc \in Mutated :
                    /\ Holders(tokens, rc) # {}
                    /\ \A i \in Holders(tokens, rc) : i >= Len(tokens')
                    /\ Holders(tokens', rc) = {Len(tokens')}
                    /\ Nested(arguments', rc) = {}]_vars

\* '1 + 2 - 3 * 4' with '*' as the lookahead: the attempt on
\* [Add, Minus, 3] was deferred and has reported no match, and the list of
\* the Add on the stack is as '1 + 2' made it
C32_Witness ==
    /\ pc = "push"
    /\ lookahead = Times
    /\ tokens = <<Expression(OpRc("Add", 1)), Minus, Expression(Const(3))>>
    /\ arguments = <<(<<Const(1), Const(2)>>)>>

\* '1 + 2 + 3': the second '+' has pushed 3 onto the list of '1 + 2', and
\* the one token left is the only holder of its handle
C32_Merged ==
    /\ pc = "reduce"
    /\ lookahead = EndOfStream
    /\ tokens = <<Expression(OpRc("Add", 1))>>
    /\ arguments = <<(<<Const(1), Const(2), Const(3)>>)>>

(***************************************************************************)
(* C33.  The builder holds exactly the most recently supplied token as     *)
(* lookahead and shifts a token onto the stack only when the next token    *)
(* arrives: after k >= 1 tokens have been pushed the stack is built from   *)
(* the first k-1 tokens only, so the final EndOfStream token is never on   *)
(* the stack and is the lookahead when build is called.                    *)
(***************************************************************************)
\* the constants of an expression, from left to right
RECURSIVE ExpLeaves(_)
RECURSIVE LeavesOfAll(_)
ExpLeaves(e) ==
    IF e.tag = "Const" THEN <<e>>
    ELSE IF e.tag = "Op" THEN LeavesOfAll(e.args)
    ELSE <<>>

LeavesOfAll(es) ==
    IF es = <<>> THEN <<>> ELSE ExpLeaves(Head(es)) \o LeavesOfAll(Tail(es))

\* the constants a stack holds, as Number tokens or inside its expressions
RECURSIVE StackLeaves(_)
StackLeaves(stack) ==
    IF stack = <<>> THEN <<>>
    ELSE LET t == Head(stack)
         IN  (IF t.tag = "Number" THEN <<Const(t.n)>>
              ELSE IF IsExpression(t) THEN ExpLeaves(t.exp)
              ELSE <<>>) \o StackLeaves(Tail(stack))

\* how many operator tokens went into an expression
RECURSIVE ExpOperators(_)
RECURSIVE OperatorsOfAll(_)
ExpOperators(e) ==
    IF e.tag = "Op" THEN (Len(e.args) - 1) + OperatorsOfAll(e.args) ELSE 0

OperatorsOfAll(es) ==
    IF es = <<>> THEN 0 ELSE ExpOperators(Head(es)) + OperatorsOfAll(Tail(es))

\* how many operator tokens a stack holds, as tokens or inside its
\* expressions
RECURSIVE StackOperators(_)
StackOperators(stack) ==
    IF stack = <<>> THEN 0
    ELSE LET t == Head(stack)
         IN  (IF t \in {Plus, Minus, Times} THEN 1
              ELSE IF IsExpression(t) THEN ExpOperators(t.exp)
              ELSE 0) + StackOperators(Tail(stack))

\* the parentheses of a sequence that are open
Unclosed(toks) == Count(toks, OpenParen) - Count(toks, CloseParen)

\* the stack holds the tokens `toks` and nothing else
BuiltFrom(stack, toks) ==
    /\ \A i \in 1..Len(stack) : stack[i].tag \notin {"EndOfStream", "None"}
    /\ StackLeaves(stack) = Literals(toks)
    /\ StackOperators(stack) =
           Count(toks, Plus) + Count(toks, Minus) + Count(toks, Times)
    /\ Unclosed(stack) = Unclosed(toks)

C33_LookaheadIsLast ==
    /\ [](pc \in {"push", "reduce", "build"} =>
            /\ lookahead = IF fed = 0 THEN NoToken ELSE tokenized[fed]
            /\ BuiltFrom(tokens, SubSeq(tokenized, 1, fed - 1)))
    /\ [](pc = "build" => fed = Len(tokenized) /\ lookahead = EndOfStream)
    /\ [][(pc = "push" /\ pc' = "reduce") =>
            /\ fed' = fed + 1
            /\ lookahead' = tokenized[fed']
            /\ tokens' = IF fed = 0 THEN tokens
                         ELSE Append(tokens, tokenized[fed])]_vars

\* '1 + 2' when build is called: four tokens were pushed, the stack is
\* what the first three made and EndOfStream is the lookahead
C33_Witness ==
    /\ pc = "build"
    /\ fed = 4
    /\ tokenized = <<Number(1), Plus, Number(2), EndOfStream>>
    /\ lookahead = EndOfStream
    /\ tokens = <<Expression(Add(<<Const(1), Const(2)>>))>>

====
